-------------------------- MODULE ConversationState --------------------------
(***************************************************************************)
(* The state of the Responses API: the two ordered maps of                 *)
(* src/src/utils/conversation-store.ts and the requests that read and      *)
(* write them around their upstream call, handleAsCompletions of           *)
(* src/src/handlers/responses.ts.                                          *)
(*                                                                         *)
(* A request is a turn, and stands for the input and the output items it   *)
(* adds and for the identifier of its response.  A map is a sequence in    *)
(* the order of insertion.                                                 *)
(***************************************************************************)
EXTENDS Integers, Sequences, SequencesExt, FiniteSets

CONSTANTS
  Requests,        (* the requests of a behaviour, each made once             *)
  Conversations,   (* conversation identifiers                                *)
  None,            (* no conversation, or no previous response                *)
  MaxEntries,      (* CONVERSATION_MAX_ENTRIES                                *)
  TTL,             (* CONVERSATION_TTL_MS                                     *)
  MaxTime          (* bound: the time that passes                             *)

ASSUME ConversationAssumption ==
  /\ None \notin Requests \cup Conversations
  /\ MaxEntries \in Nat \ {0}
  /\ TTL \in Nat \ {0}
  /\ MaxTime \in Nat

VARIABLES
  now,             (* Date.now()                                              *)
  store,           (* store: responses with their whole history of turns      *)
  threads,         (* threads: conversations with their accumulated turns     *)
  pc,              (* request -> where it is                                  *)
  ref,             (* request -> [previous, conversation] it names            *)
  merged,          (* request -> mergedInput: the prior turns it was sent with *)
  done             (* ghost: the turns that were stored, in that order        *)

vars == <<now, store, threads, pc, ref, merged, done>>

-----------------------------------------------------------------------------
(* The maps: both hold records with a key, turns and the time they expire. *)

Nth(positions, i) ==
  CHOOSE k \in positions : Cardinality({j \in positions : j <= k}) = i
Kept(s, positions) == [i \in 1..Cardinality(positions) |-> s[Nth(positions, i)]]

Keys(map) == {map[k].key : k \in DOMAIN map}
Entry(map, key) == map[CHOOSE k \in DOMAIN map : map[k].key = key]
Without(map, key) == Kept(map, {k \in DOMAIN map : map[k].key # key})
Pushed(map, key, turns) == Append(map, [key |-> key, turns |-> turns, expires |-> now + TTL])
Put(map, key, turns) ==
  LET entry == [key |-> key, turns |-> turns, expires |-> now + TTL]
  IN  IF key \in Keys(map)
      THEN [k \in DOMAIN map |-> IF map[k].key = key THEN entry ELSE map[k]]
      ELSE Append(map, entry)
Unexpired(map) == Kept(map, {k \in DOMAIN map : map[k].expires > now})
Rest(map) == IF map = <<>> THEN <<>> ELSE Tail(map)

(* getConversation and getConversationThreadItems: an expired entry is deleted by the read. *)
Live(map, key) == key \in Keys(map) /\ Entry(map, key).expires > now
Read(map, key) == IF Live(map, key) THEN Entry(map, key).turns ELSE <<>>
AfterRead(map, key) == IF Live(map, key) THEN map ELSE Without(map, key)

(* evictExpired and then evictOldest, which takes one entry from each of the maps, while they exceed
   the cap: once is enough, for they exceed it by one. *)
Size(s, t) == Len(s) + Len(t)
NewestFirst(s, t) ==
  IF Size(s, t) > MaxEntries
  THEN [s |-> IF s = <<>> THEN s ELSE Front(s), t |-> IF t = <<>> THEN t ELSE Front(t)]
  ELSE [s |-> s, t |-> t]
EvictOnce(s, t) ==
  IF Size(s, t) > MaxEntries THEN [s |-> Rest(s), t |-> Rest(t)] ELSE [s |-> s, t |-> t]
Evict(s, t) == EvictOnce(Unexpired(s), Unexpired(t))

(* appendConversationThreadItems: an expired thread starts anew, at the place it had. *)
Overwritten(t, conversation, r) == Put(t, conversation, Append(merged[r], r))
Accumulated(t, conversation, r) == Put(t, conversation, Append(Read(t, conversation), r))

(* What the store keeps of a turn: saveConversation and, for a conversation, the append. *)
Following(prior, r) == Append(prior, r)
Saved(r) == Evict(Put(store, r, Following(merged[r], r)), threads)
Stored(r) ==
  LET c == ref[r].conversation
  IN  IF c = None THEN Saved(r) ELSE Evict(Saved(r).s, Accumulated(Saved(r).t, c, r))

-----------------------------------------------------------------------------
Init ==
  /\ now = 0
  /\ store = <<>> /\ threads = <<>>
  /\ pc = [r \in Requests |-> "new"]
  /\ ref = [r \in Requests |-> [previous |-> None, conversation |-> None]]
  /\ merged = [r \in Requests |-> <<>>]
  /\ done = <<>>

(* The identifiers a client may know: a streamed response tells its own before it is stored. *)
Known == {r \in Requests : pc[r] # "new"}

(* A request without a reference, one that continues another response, or one in a conversation;
   what it refers to is read before the upstream call, and silently missed when it is not there. *)
Fresh(r) ==
  /\ pc[r] = "new"
  /\ pc' = [pc EXCEPT ![r] = "calling"]
  /\ UNCHANGED <<now, store, threads, ref, merged, done>>

Continue(r, p) ==
  /\ pc[r] = "new"
  /\ pc' = [pc EXCEPT ![r] = "calling"]
  /\ ref' = [ref EXCEPT ![r].previous = p]
  /\ merged' = [merged EXCEPT ![r] = Read(store, p)]
  /\ store' = AfterRead(store, p)
  /\ UNCHANGED <<now, threads, done>>

Converse(r, c) ==
  /\ pc[r] = "new"
  /\ pc' = [pc EXCEPT ![r] = "calling"]
  /\ ref' = [ref EXCEPT ![r].conversation = c]
  /\ merged' = [merged EXCEPT ![r] = Read(threads, c)]
  /\ threads' = AfterRead(threads, c)
  /\ UNCHANGED <<now, store, done>>

(* The response is complete, the end of its stream included, and is stored unless the client asked
   for store: false. *)
Complete(r, stored) ==
  /\ pc[r] = "calling"
  /\ pc' = [pc EXCEPT ![r] = "answered"]
  /\ IF stored
     THEN store' = Stored(r).s /\ threads' = Stored(r).t /\ done' = Append(done, r)
     ELSE UNCHANGED <<store, threads, done>>
  /\ UNCHANGED <<now, ref, merged>>

(* The upstream call fails or its stream breaks off: nothing is stored. *)
Fail(r) ==
  /\ pc[r] = "calling"
  /\ pc' = [pc EXCEPT ![r] = "failed"]
  /\ UNCHANGED <<now, store, threads, ref, merged, done>>

(* GET /v1/responses/{id} and its input_items. *)
Retrieve(p) ==
  /\ store' = AfterRead(store, p)
  /\ UNCHANGED <<now, threads, pc, ref, merged, done>>

PassTime ==
  /\ now < MaxTime
  /\ now' = now + 1
  /\ UNCHANGED <<store, threads, pc, ref, merged, done>>

Next ==
  \/ \E r \in Requests :
       \/ Fresh(r)
       \/ \E p \in Known : Continue(r, p)
       \/ \E c \in Conversations : Converse(r, c)
       \/ \E stored \in BOOLEAN : Complete(r, stored)
       \/ Fail(r)
  \/ \E p \in Known : Retrieve(p)
  \/ PassTime

Spec == Init /\ [][Next]_vars
-----------------------------------------------------------------------------
IsMap(map, keys) ==
  /\ map \in Seq([key : keys, turns : Seq(Requests), expires : 0..now + TTL])
  /\ \A j, k \in DOMAIN map : map[j].key = map[k].key => j = k

(* Types; and however responses and conversations fill the maps, together they hold no more than
   the cap. *)
TypeOK ==
  /\ now \in 0..MaxTime
  /\ IsMap(store, Requests) /\ IsMap(threads, Conversations)
  /\ pc \in [Requests -> {"new", "calling", "answered", "failed"}]
  /\ ref \in [Requests -> [previous : Requests \cup {None}, conversation : Conversations \cup {None}]]
  /\ merged \in [Requests -> Seq(Requests)]
  /\ done \in Seq(Requests)
  /\ Size(store, threads) <= MaxEntries

(* What the maps remember is what was said.  A thread is a suffix of the stored turns of its
   conversation in the order they completed: turns that overlap are both kept, none comes twice or
   from elsewhere, and what an eviction or an expiry loses is the oldest part.  The history stored
   with a response is the one its client built: it ends with the turn itself, and each turn in it
   answers the one before or follows it in the same conversation
   (appendConversationThreadItems, saveConversation). *)
ThreadIsRecentHistory ==
  \A k \in DOMAIN threads :
    IsSuffix(threads[k].turns,
             Kept(done, {d \in DOMAIN done : ref[done[d]].conversation = threads[k].key}))
HistoryIsOwn ==
  \A k \in DOMAIN store :
    LET turns == store[k].turns
    IN  /\ turns # <<>> /\ turns[Len(turns)] = store[k].key
        /\ \A j \in 1..Len(turns) - 1 :
             \/ ref[turns[j + 1]].previous = turns[j]
             \/ /\ ref[turns[j + 1]].conversation = ref[turns[j]].conversation
                /\ ref[turns[j]].conversation # None
HistoriesAreTrue == ThreadIsRecentHistory /\ HistoryIsOwn

(* The eviction that makes room for a response never takes that response: a client can continue, or
   retrieve, what it was just given.  It holds from a cap of two, because there are never more live
   threads than live responses, so that evicting from both maps leaves the last of the responses. *)
JustStoredIsRetrievable ==
  [][\A r \in Requests : MaxEntries > 1 /\ Complete(r, TRUE) => r \in Keys(store')]_vars
=============================================================================
