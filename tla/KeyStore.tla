------------------------------ MODULE KeyStore ------------------------------
(***************************************************************************)
(* The keys of the configuration in one item of the system's key store     *)
(* (key-store.ts): a bundle from accounts to keys, where an account is the *)
(* name of an entry and its base URL. In the file a stored key is replaced *)
(* by a sentinel, which a load resolves from the bundle.                   *)
(***************************************************************************)
EXTENDS Naturals, Sequences, SequencesExt, Functions

CONSTANT UpstreamOf     \* the upstream model of an entry, which its account names

Sentinel == "STORE_KEY_IN_SYSTEM"
Blank == "no key"

Put(f, x, v) == [y \in DOMAIN f \cup {x} |-> IF y = x THEN v ELSE f[y]]

\* An entry of the configuration: its URL, a sequence of parts, and its key.
Account(models, m) == <<UpstreamOf[m], models[m].url>>
AnyValue(models) == {m \in DOMAIN models : models[m].key # Sentinel}
RawSlots(models) == {m \in DOMAIN models : models[m].key \notin {Blank, Sentinel}}
SentinelSlots(models) == {m \in DOMAIN models : models[m].key = Sentinel}

\* URLs are related when one is a prefix of the other: an equal one comes before
\* an equal upstream model, and that before the longer common prefix.
Related(u, v) == IsPrefix(u, v) \/ IsPrefix(v, u)

BetterMatch(wanted, a, b) ==
    LET Flag(p) == IF p THEN 1 ELSE 0
        Common(x) == IF Len(x[2]) < Len(wanted[2]) THEN Len(x[2]) ELSE Len(wanted[2])
        Score(x) == 1000 * Flag(x[2] = wanted[2]) + 100 * Flag(x[1] = wanted[1]) + Common(x)
    IN  Score(a) > Score(b)

\* The accounts a missing one may be resolved from: the best of the related ones.
AnyUpstream(bundle, wanted) ==
    {a \in DOMAIN bundle : \A b \in DOMAIN bundle : ~BetterMatch(wanted, b, a)}

BestMatches(bundle, wanted) ==
    LET related == {a \in DOMAIN bundle : Related(a[2], wanted[2])}
    IN  {a \in related : \A b \in related : ~BetterMatch(wanted, b, a)}

\* Raw keys are added to the bundle under the account of their slot. Of two
\* slots with one account the later in the file stays: a choice.
WithRawKeys(bundle, models) ==
    LET added == {Account(models, m) : m \in RawSlots(models)}
        slots(a) == {m \in RawSlots(models) : Account(models, m) = a}
    IN  {[a \in DOMAIN bundle \cup added |->
            IF a \in added THEN models[last[a]].key ELSE bundle[a]] :
         last \in {f \in [added -> RawSlots(models)] : \A a \in added : f[a] \in slots(a)}}

\* A sentinel is resolved from the bundle, exactly or by the best match, and
\* cleared when nothing matches. Where no bundle was stored yet, what it was
\* resolved to is added to the new one.
KeyFor(known, account) ==
    IF account \in DOMAIN known THEN known[account]
    ELSE IF BestMatches(known, account) = {} THEN Blank
    ELSE known[CHOOSE a \in BestMatches(known, account) : TRUE]

SlotResolved(r, m, isNew) ==
    LET account == Account(r.models, m)
        key == KeyFor(r.bundle, account)
    IN  [models |-> Put(r.models, m, [r.models[m] EXCEPT !.key = key]),
         bundle |-> IF isNew /\ key # Blank THEN Put(r.bundle, account, key) ELSE r.bundle]

\* All sentinels, in order.
Resolved(bundle, models, order, isNew) ==
    LET R[k \in 0..Len(order)] ==
          IF k = 0 THEN [models |-> models, bundle |-> bundle]
          ELSE SlotResolved(R[k - 1], order[k], isNew)
    IN  R[Len(order)]

\* The rewrite of the file replaces the text of the keys that were stored,
\* wherever it stands.
Hidden(models, keys) ==
    [m \in DOMAIN models |->
        IF models[m].key \in keys THEN [models[m] EXCEPT !.key = Sentinel] ELSE models[m]]
=============================================================================
