------------------------- MODULE AlertFeedApi_proofs -------------------------
(***************************************************************************)
(* Proofs about overlapping GETs of the alert feed, for every set of       *)
(* request threads and keys and every bound on the length of a snapshot.   *)
(***************************************************************************)
EXTENDS AlertFeedApi, TLAPS

\* A snapshot is a sequence of keys no longer than the bound.
LEMMA ListFacts ==
    ASSUME NEW l \in Lists
    PROVE  /\ l \in Seq(Key)
           /\ Len(l) \in 0..MaxList
           /\ DOMAIN l = 1..Len(l)
<1>1. PICK n \in 0..MaxList : l \in [1..n -> Key]
  BY DEF Lists
<1>2. n \in Nat
  BY <1>1, FeedAssumption
<1>3. l \in Seq(Key) /\ Len(l) = n
  BY <1>1, <1>2
<1>4. QED
  BY <1>1, <1>3

\* The empty list is a snapshot.
LEMMA EmptyList == <<>> \in Lists
<1>1. 0 \in 0..MaxList
  BY FeedAssumption
<1>2. <<>> \in [1..0 -> Key]
  OBVIOUS
<1>3. QED
  BY <1>1, <1>2 DEF Lists

\* Where the loop goes next, and that it never leaves the list.
LEMMA AfterAlertFacts ==
    ASSUME TypeOK, NEW r \in Request, NEW at \in 1..MaxList + 1
    PROVE  /\ AfterAlert(r, at) \in {"lookup", "reply"}
           /\ AfterAlert(r, at) = "lookup" => at \in DOMAIN snapshot[r]
<1>1. snapshot[r] \in Lists
  BY DEF TypeOK
<1>2. Len(snapshot[r]) \in 0..MaxList /\ DOMAIN snapshot[r] = 1..Len(snapshot[r])
  BY <1>1, ListFacts
<1>3. QED
  BY <1>2, FeedAssumption DEF AfterAlert

-----------------------------------------------------------------------------
(* Type correctness *)

\* The position a request handles is one of its snapshot, so the next one is
\* at most one past the bound.
LEMMA PositionFacts ==
    ASSUME TypeOK, NEW r \in Request, pc[r] \in {"lookup", "record"}
    PROVE  /\ pos[r] \in 1..MaxList
           /\ pos[r] + 1 \in 1..MaxList + 1
           /\ snapshot[r][pos[r]] \in Key
<1>1. snapshot[r] \in Lists /\ pos[r] \in DOMAIN snapshot[r]
  BY DEF TypeOK
<1>2. /\ Len(snapshot[r]) \in 0..MaxList
      /\ DOMAIN snapshot[r] = 1..Len(snapshot[r])
      /\ snapshot[r] \in Seq(Key)
  BY <1>1, ListFacts
<1>3. QED
  BY <1>1, <1>2, FeedAssumption

LEMMA TypeInit == Init => TypeOK
BY EmptyList, FeedAssumption DEF Init, TypeOK, Step

LEMMA TypeStep == TypeOK /\ [Next]_vars => TypeOK'
<1> SUFFICES ASSUME TypeOK, [Next]_vars PROVE TypeOK'
  OBVIOUS
<1> USE FeedAssumption
<1>1. ASSUME NEW list \in Lists, Publish(list) PROVE TypeOK'
  BY <1>1 DEF Publish, TypeOK, local, history
<1>2. ASSUME NEW r \in Request, Begin(r) PROVE TypeOK'
  <2>1. latest \in Lists
    BY <1>2 DEF Begin, TypeOK
  <2>2. snapshot' \in [Request -> Lists]
    BY <1>2, <2>1 DEF Begin, TypeOK
  <2>3. pc' \in [Request -> Step]
    BY <1>2 DEF Begin, TypeOK, Step
  <2>4. overlapped' \in [Request -> BOOLEAN]
    BY <1>2, Zenon DEF Begin, TypeOK, InFlight
  <2>5. \A q \in Request : pc'[q] \in {"lookup", "record"} => pos'[q] \in DOMAIN snapshot'[q]
    BY <1>2 DEF Begin, TypeOK
  <2>6. QED
    BY <1>2, <2>2, <2>3, <2>4, <2>5 DEF Begin, TypeOK
<1>3. ASSUME NEW r \in Request, ResetRegistry(r) PROVE TypeOK'
  <2>1. /\ AfterAlert(r, 1) \in {"lookup", "reply"}
        /\ AfterAlert(r, 1) = "lookup" => 1 \in DOMAIN snapshot[r]
    BY AfterAlertFacts
  <2>2. resetSince' \in [Request -> BOOLEAN]
    BY <1>3, Zenon DEF ResetRegistry
  <2>3. QED
    BY <1>3, <2>1, <2>2 DEF ResetRegistry, TypeOK, Step
<1>4. ASSUME NEW r \in Request, Lookup(r) PROVE TypeOK'
  BY <1>4 DEF Lookup, TypeOK, Step, history
<1>5. ASSUME NEW r \in Request, Suppress(r) PROVE TypeOK'
  <2>1. pos[r] \in 1..MaxList /\ pos[r] + 1 \in 1..MaxList + 1
    BY <1>5, PositionFacts DEF Suppress
  <2>2. /\ AfterAlert(r, pos[r] + 1) \in {"lookup", "reply"}
        /\ AfterAlert(r, pos[r] + 1) = "lookup" => pos[r] + 1 \in DOMAIN snapshot[r]
    BY <2>1, AfterAlertFacts
  <2>3. QED
    BY <1>5, <2>1, <2>2 DEF Suppress, TypeOK, Step, history
<1>6. ASSUME NEW r \in Request, Fire(r) PROVE TypeOK'
  <2>1. /\ pos[r] \in 1..MaxList /\ pos[r] + 1 \in 1..MaxList + 1
        /\ snapshot[r][pos[r]] \in Key
    BY <1>6, PositionFacts DEF Fire
  <2>2. /\ AfterAlert(r, pos[r] + 1) \in {"lookup", "reply"}
        /\ AfterAlert(r, pos[r] + 1) = "lookup" => pos[r] + 1 \in DOMAIN snapshot[r]
    BY <2>1, AfterAlertFacts
  <2>3. QED
    BY <1>6, <2>1, <2>2 DEF Fire, TypeOK, Step
<1>7. ASSUME NEW r \in Request, Reply(r) PROVE TypeOK'
  BY <1>7, EmptyList DEF Reply, TypeOK, Step
<1>8. CASE UNCHANGED vars
  BY <1>8 DEF vars, local, history, TypeOK
<1>9. QED
  BY <1>1, <1>2, <1>3, <1>4, <1>5, <1>6, <1>7, <1>8 DEF Next

\* Every reachable state is well typed and no request indexes past its snapshot.
THEOREM FeedTypeCorrect == Spec => []TypeOK
BY TypeInit, TypeStep, PTL DEF Spec

-----------------------------------------------------------------------------
(* What a request knows about the registry *)

\* Before its reset a request has decided nothing.  After it, the registry holds
\* only keys written since, and a lookup that found a key found one of those.
KnownRegistry ==
    \A r \in Request :
        /\ pc[r] \in {"idle", "reset"} => suppressed[r] = {} /\ active[r] = {}
        /\ Prioritizing(r) => registry \subseteq firedSince[r]
        /\ pc[r] = "record" /\ seen[r] => snapshot[r][pos[r]] \in firedSince[r]

\* As long as nobody else resets, the keys a request has shown are in the
\* registry, and the key it is about to show is not one of them.
OwnKeysKept ==
    \A r \in Request : ~resetSince[r] =>
        /\ Prioritizing(r) => \A i \in active[r] : snapshot[r][i] \in registry
        /\ pc[r] = "record" /\ ~seen[r] =>
              \A i \in active[r] : snapshot[r][i] # snapshot[r][pos[r]]

IInv == TypeOK /\ KnownRegistry /\ SuppressedWasFired /\ OwnKeysKept /\ DuplicateNeedsReset

LEMMA FeedInit == Init => IInv
BY TypeInit DEF Init, IInv, KnownRegistry, SuppressedWasFired, OwnKeysKept,
   DuplicateNeedsReset, Prioritizing

\* Nothing is claimed of a request before its reset.
LEMMA BeginStep ==
    ASSUME IInv, NEW r \in Request, Begin(r)
    PROVE  KnownRegistry' /\ SuppressedWasFired' /\ OwnKeysKept' /\ DuplicateNeedsReset'
BY DEF IInv, TypeOK, Begin, KnownRegistry, SuppressedWasFired, OwnKeysKept,
       DuplicateNeedsReset, Prioritizing, Step

\* The reset empties the registry under every other request that is at work, and
\* marks it.
LEMMA ResetStep ==
    ASSUME IInv, NEW r \in Request, ResetRegistry(r)
    PROVE  KnownRegistry' /\ SuppressedWasFired' /\ OwnKeysKept' /\ DuplicateNeedsReset'
<1>1. AfterAlert(r, 1) \in {"lookup", "reply"}
  BY AfterAlertFacts, FeedAssumption DEF IInv
<1>2. TypeOK /\ pc[r] = "reset" /\ suppressed[r] = {} /\ active[r] = {}
  BY DEF IInv, KnownRegistry, ResetRegistry
<1>3. KnownRegistry'
  BY <1>1, <1>2 DEF IInv, TypeOK, ResetRegistry, KnownRegistry, Prioritizing
<1>4. SuppressedWasFired'
  BY <1>2 DEF IInv, TypeOK, ResetRegistry, SuppressedWasFired
<1>5. \A q \in Request \ {r} : ~resetSince'[q] => ~resetSince[q] /\ ~Prioritizing(q)
  BY <1>2 DEF ResetRegistry, TypeOK
<1>6. \A q \in Request \ {r} : pc'[q] = pc[q]
  BY <1>2 DEF ResetRegistry, TypeOK
<1>7. OwnKeysKept'
  BY <1>1, <1>2, <1>5, <1>6 DEF IInv, TypeOK, ResetRegistry, OwnKeysKept, Prioritizing
<1>8. \A q \in Request \ {r} : ~resetSince'[q] => active[q] = {}
  BY <1>2, <1>5 DEF IInv, KnownRegistry, Prioritizing, TypeOK, Step
<1>9. DuplicateNeedsReset'
  BY <1>2, <1>8 DEF ResetRegistry, DuplicateNeedsReset
<1>10. QED
  BY <1>3, <1>4, <1>7, <1>9

\* A lookup compares with the registry, which bounds what it can find.
LEMMA LookupStep ==
    ASSUME IInv, NEW r \in Request, Lookup(r)
    PROVE  KnownRegistry' /\ SuppressedWasFired' /\ OwnKeysKept' /\ DuplicateNeedsReset'
<1>1. KnownRegistry'
  BY DEF IInv, TypeOK, Lookup, KnownRegistry, Prioritizing, history
<1>2. SuppressedWasFired' /\ DuplicateNeedsReset'
  BY DEF IInv, Lookup, SuppressedWasFired, DuplicateNeedsReset, history
<1>3. OwnKeysKept'
  BY DEF IInv, TypeOK, Lookup, OwnKeysKept, Prioritizing, history
<1>4. QED
  BY <1>1, <1>2, <1>3

\* A suppressed key is the key the lookup found.
LEMMA SuppressStep ==
    ASSUME IInv, NEW r \in Request, Suppress(r)
    PROVE  KnownRegistry' /\ SuppressedWasFired' /\ OwnKeysKept' /\ DuplicateNeedsReset'
<1>1. TypeOK /\ pos[r] + 1 \in 1..MaxList + 1
  BY PositionFacts DEF IInv, Suppress
<1>2. AfterAlert(r, pos[r] + 1) \in {"lookup", "reply"}
  BY <1>1, AfterAlertFacts
<1>3. KnownRegistry'
  BY <1>1, <1>2 DEF IInv, TypeOK, Suppress, KnownRegistry, Prioritizing, history
<1>4. SuppressedWasFired'
  BY <1>1 DEF IInv, TypeOK, Suppress, KnownRegistry, SuppressedWasFired, history
<1>5. OwnKeysKept' /\ DuplicateNeedsReset'
  BY <1>1, <1>2 DEF IInv, TypeOK, Suppress, OwnKeysKept, DuplicateNeedsReset,
                    Prioritizing, history
<1>6. QED
  BY <1>3, <1>4, <1>5

\* A fired key is recorded for everyone who may meet it in the registry.
LEMMA FireStep ==
    ASSUME IInv, NEW r \in Request, Fire(r)
    PROVE  KnownRegistry' /\ SuppressedWasFired' /\ OwnKeysKept' /\ DuplicateNeedsReset'
<1> DEFINE key == snapshot[r][pos[r]]
<1>1. TypeOK /\ pos[r] + 1 \in 1..MaxList + 1 /\ pc[r] = "record" /\ ~seen[r]
  BY PositionFacts DEF IInv, Fire
<1>2. AfterAlert(r, pos[r] + 1) \in {"lookup", "reply"}
  BY <1>1, AfterAlertFacts
<1>3. \A q \in Request : firedSince[q] \subseteq firedSince'[q]
  BY <1>1 DEF Fire, TypeOK
<1>4. \A q \in Request : Prioritizing(q) => key \in firedSince'[q]
  BY <1>1 DEF Fire, TypeOK
<1>5. \A q \in Request : Prioritizing(q)' <=> Prioritizing(q)
  BY <1>1, <1>2 DEF Fire, TypeOK, Prioritizing
<1>6. registry' = registry \cup {key}
  BY DEF Fire
<1>7. \A q \in Request : Prioritizing(q)' => registry' \subseteq firedSince'[q]
  BY <1>3, <1>4, <1>5, <1>6 DEF IInv, KnownRegistry
<1>8. \A q \in Request : pc'[q] \in {"idle", "reset"} => pc'[q] = pc[q] /\ q # r
  BY <1>1, <1>2 DEF Fire, TypeOK
<1>9. \A q \in Request \ {r} :
         pc'[q] = pc[q] /\ active'[q] = active[q] /\ pos'[q] = pos[q]
  BY <1>1 DEF Fire, TypeOK
<1>10. pc'[r] # "record"
  BY <1>1, <1>2 DEF Fire, TypeOK
<1>11. snapshot' = snapshot /\ seen' = seen /\ suppressed' = suppressed /\ resetSince' = resetSince
  BY DEF Fire
<1>12. active'[r] = active[r] \cup {pos[r]}
  BY <1>1 DEF Fire, TypeOK
<1>13. KnownRegistry'
  BY <1>3, <1>7, <1>8, <1>9, <1>10, <1>11 DEF IInv, KnownRegistry
<1>14. SuppressedWasFired'
  BY <1>3, <1>11 DEF IInv, SuppressedWasFired
<1>15. OwnKeysKept'
  BY <1>1, <1>5, <1>6, <1>9, <1>10, <1>11, <1>12 DEF IInv, OwnKeysKept
<1>16. DuplicateNeedsReset'
  BY <1>1, <1>9, <1>11, <1>12 DEF IInv, OwnKeysKept, DuplicateNeedsReset
<1>17. QED
  BY <1>13, <1>14, <1>15, <1>16

\* A request that has answered claims nothing.
LEMMA ReplyStep ==
    ASSUME IInv, NEW r \in Request, Reply(r)
    PROVE  KnownRegistry' /\ SuppressedWasFired' /\ OwnKeysKept' /\ DuplicateNeedsReset'
BY DEF IInv, TypeOK, Reply, KnownRegistry, SuppressedWasFired, OwnKeysKept,
       DuplicateNeedsReset, Prioritizing

LEMMA FeedStep == IInv /\ [Next]_vars => IInv'
<1> SUFFICES ASSUME IInv, [Next]_vars PROVE IInv'
  OBVIOUS
<1>1. TypeOK'
  BY TypeStep DEF IInv
<1>2. ASSUME NEW list \in Lists, Publish(list) PROVE IInv'
  BY <1>1, <1>2 DEF Publish, IInv, KnownRegistry, SuppressedWasFired, OwnKeysKept,
     DuplicateNeedsReset, Prioritizing, local, history
<1>3. CASE UNCHANGED vars
  BY <1>1, <1>3 DEF vars, IInv, KnownRegistry, SuppressedWasFired, OwnKeysKept,
     DuplicateNeedsReset, Prioritizing, local, history
<1>4. ASSUME NEW r \in Request,
             \/ Begin(r) \/ ResetRegistry(r) \/ Lookup(r)
             \/ Suppress(r) \/ Fire(r) \/ Reply(r)
      PROVE IInv'
  BY <1>1, <1>4, BeginStep, ResetStep, LookupStep, SuppressStep, FireStep, ReplyStep
     DEF IInv
<1>5. QED
  BY <1>2, <1>3, <1>4 DEF Next

\* The requests lose nothing between them: an alert is left out of an answer only
\* if some request has shown its key since this one's own reset, however the
\* requests interleave.
THEOREM NothingLost == Spec => []SuppressedWasFired
<1>1. IInv => SuppressedWasFired
  BY DEF IInv
<1>2. QED
  BY <1>1, FeedInit, FeedStep, PTL DEF Spec

\* An answer repeats a key only if another request emptied the registry meanwhile.
THEOREM DuplicatesExplained == Spec => []DuplicateNeedsReset
<1>1. IInv => DuplicateNeedsReset
  BY DEF IInv
<1>2. QED
  BY <1>1, FeedInit, FeedStep, PTL DEF Spec

-----------------------------------------------------------------------------
(* A request that meets no other one *)

\* Two requests that are served at the same time know of each other.
ServedAlone ==
    \A r \in Request : InFlight(r) /\ ~overlapped[r] =>
        \A q \in Request : InFlight(q) => q = r

\* The registry of a request that met no other one holds the keys of the alerts it
\* has handled, and it shows the first alert of each of them.
AlonePrefixOf(r) ==
    ~overlapped[r] =>
        /\ Prioritizing(r) =>
              /\ registry = {snapshot[r][i] : i \in 1..pos[r] - 1}
              /\ active[r] = {i \in FirstPositions(r) : i < pos[r]}
        /\ pc[r] = "record" => (seen[r] <=> snapshot[r][pos[r]] \in registry)
        /\ pc[r] = "reply" => pos[r] = Len(snapshot[r]) + 1

AlonePrefix == \A r \in Request : AlonePrefixOf(r)

AInv == IInv /\ ServedAlone /\ AlonePrefix

\* A step of a request in flight that neither ends it nor touches the others' local
\* state: nobody else claims to be alone, so only the request itself is left to show.
LEMMA OnlyOneAlone ==
    ASSUME AInv, NEW r \in Request, InFlight(r), InFlight(r)',
           overlapped' = overlapped,
           \A q \in Request \ {r} : pc'[q] = pc[q],
           AlonePrefixOf(r)'
    PROVE  ServedAlone' /\ AlonePrefix'
<1>1. \A q \in Request : InFlight(q)' <=> InFlight(q)
  BY DEF InFlight
<1>2. ServedAlone'
  BY <1>1 DEF AInv, ServedAlone
<1>3. ASSUME NEW q \in Request \ {r}, ~overlapped'[q]
      PROVE  pc'[q] = "idle"
  BY <1>3, <1>1 DEF AInv, ServedAlone, InFlight
<1>4. AlonePrefix'
  BY <1>3 DEF AlonePrefix, AlonePrefixOf, Prioritizing
<1>5. QED
  BY <1>2, <1>4

\* A request begins while another is in flight, and both are marked, or alone.
LEMMA BeginAlone ==
    ASSUME AInv, NEW r \in Request, Begin(r)
    PROVE  ServedAlone' /\ AlonePrefix'
<1>1. /\ pc[r] = "idle" /\ pc'[r] = "reset"
      /\ \A q \in Request \ {r} : pc'[q] = pc[q]
  BY DEF AInv, IInv, TypeOK, Begin
<1>2. /\ overlapped'[r] = \E p \in Request : InFlight(p)
      /\ \A q \in Request \ {r} : overlapped'[q] = (overlapped[q] \/ InFlight(q))
  BY DEF Begin
<1>3. \A q \in Request \ {r} : ~overlapped'[q] => pc'[q] = "idle"
  BY <1>1, <1>2 DEF InFlight
<1>4. ~overlapped'[r] => \A q \in Request \ {r} : pc'[q] = "idle"
  BY <1>1, <1>2 DEF InFlight
<1>5. ServedAlone'
  BY <1>3, <1>4 DEF ServedAlone, InFlight
<1>6. AlonePrefix'
  BY <1>1, <1>3 DEF AlonePrefix, AlonePrefixOf, Prioritizing
<1>7. QED
  BY <1>5, <1>6

\* The pass begins with an empty registry and nothing shown.
LEMMA ResetAlone ==
    ASSUME AInv, NEW r \in Request, ResetRegistry(r)
    PROVE  ServedAlone' /\ AlonePrefix'
<1>1. TypeOK /\ pc[r] = "reset" /\ pos[r] = 1 /\ active[r] = {}
  BY DEF AInv, IInv, TypeOK, KnownRegistry, ResetRegistry
<1>2. pc'[r] = AfterAlert(r, 1) /\ AfterAlert(r, 1) \in {"lookup", "reply"}
  BY <1>1, AfterAlertFacts, FeedAssumption DEF ResetRegistry, TypeOK
<1>3. /\ registry' = {} /\ active' = active /\ pos' = pos
      /\ snapshot' = snapshot /\ overlapped' = overlapped
      /\ \A q \in Request \ {r} : pc'[q] = pc[q]
  BY <1>1 DEF ResetRegistry, TypeOK
<1>4. Len(snapshot[r]) \in 0..MaxList /\ DOMAIN snapshot[r] = 1..Len(snapshot[r])
  BY <1>1, ListFacts DEF TypeOK
<1>5. pc'[r] = "reply" => pos'[r] = Len(snapshot'[r]) + 1
  BY <1>1, <1>2, <1>3, <1>4, FeedAssumption DEF AfterAlert
<1>6. registry' = {snapshot'[r][i] : i \in 1..pos'[r] - 1}
  BY <1>1, <1>3
<1>7. \A i \in FirstPositions(r)' : ~(i < pos'[r])
  BY <1>1, <1>3, <1>4, FeedAssumption DEF FirstPositions
<1>8. active'[r] = {i \in FirstPositions(r)' : i < pos'[r]}
  BY <1>1, <1>3, <1>7
<1>9. AlonePrefixOf(r)'
  BY <1>2, <1>5, <1>6, <1>8 DEF AlonePrefixOf
<1>10. InFlight(r) /\ InFlight(r)'
  BY <1>1, <1>2 DEF InFlight
<1>11. QED
  BY <1>3, <1>9, <1>10, OnlyOneAlone

\* A lookup reads the registry of the moment.
LEMMA LookupAlone ==
    ASSUME AInv, NEW r \in Request, Lookup(r)
    PROVE  ServedAlone' /\ AlonePrefix'
<1>1. /\ pc[r] = "lookup" /\ pc'[r] = "record"
      /\ seen'[r] = (snapshot[r][pos[r]] \in registry)
      /\ registry' = registry /\ active' = active /\ pos' = pos
      /\ snapshot' = snapshot /\ overlapped' = overlapped
      /\ \A q \in Request \ {r} : pc'[q] = pc[q]
  BY DEF AInv, IInv, TypeOK, Lookup, history
<1>2. AlonePrefixOf(r)'
  BY <1>1 DEF AInv, AlonePrefix, AlonePrefixOf, Prioritizing, FirstPositions
<1>3. InFlight(r) /\ InFlight(r)'
  BY <1>1 DEF InFlight
<1>4. QED
  BY <1>1, <1>2, <1>3, OnlyOneAlone

\* An alert is the first of its key exactly when none before it has the key.
LEMMA FirstOrNot ==
    ASSUME TypeOK, NEW r \in Request, pc[r] = "record"
    PROVE  LET before == {snapshot[r][i] : i \in 1..pos[r] - 1}
               firsts(n) == {i \in FirstPositions(r) : i < n}
               key    == snapshot[r][pos[r]]
           IN  /\ {snapshot[r][i] : i \in 1..pos[r]} = before \cup {key}
               /\ key \in before => firsts(pos[r] + 1) = firsts(pos[r])
               /\ key \notin before => firsts(pos[r] + 1) = firsts(pos[r]) \cup {pos[r]}
<1> DEFINE before == {snapshot[r][i] : i \in 1..pos[r] - 1}
           firsts(n) == {i \in FirstPositions(r) : i < n}
           key == snapshot[r][pos[r]]
<1>1. /\ pos[r] \in 1..MaxList /\ pos[r] \in DOMAIN snapshot[r]
      /\ Len(snapshot[r]) \in 0..MaxList
      /\ DOMAIN snapshot[r] = 1..Len(snapshot[r])
  BY PositionFacts, ListFacts DEF TypeOK
<1>2. pos[r] \in Nat \ {0} /\ Len(snapshot[r]) \in Nat
  BY <1>1, FeedAssumption
<1>3. 1..pos[r] = (1..pos[r] - 1) \cup {pos[r]}
  BY <1>2
<1>4. {snapshot[r][i] : i \in 1..pos[r]} = before \cup {key}
  BY <1>3
<1>5. \A i \in DOMAIN snapshot[r] : i < pos[r] + 1 <=> i < pos[r] \/ i = pos[r]
  BY <1>1, <1>2
<1>6. FirstPositions(r) \subseteq DOMAIN snapshot[r] /\ ~(pos[r] < pos[r])
  BY <1>2 DEF FirstPositions
<1>7. pos[r] \in FirstPositions(r) <=> key \notin before
  BY <1>1 DEF FirstPositions
<1>8. key \in before => firsts(pos[r] + 1) = firsts(pos[r])
  BY <1>5, <1>6, <1>7
<1>9. key \notin before => firsts(pos[r] + 1) = firsts(pos[r]) \cup {pos[r]}
  BY <1>5, <1>6, <1>7
<1>10. QED
  BY <1>4, <1>8, <1>9

\* After the alert a pass is at the next one, or one past the end and answers.
LEMMA PassMovesOn ==
    ASSUME TypeOK, NEW r \in Request, pc[r] = "record",
           pc'[r] = AfterAlert(r, pos[r] + 1), pos'[r] = pos[r] + 1,
           snapshot' = snapshot
    PROVE  /\ pc'[r] \in {"lookup", "reply"}
           /\ pos'[r] - 1 = pos[r]
           /\ pc'[r] = "reply" => pos'[r] = Len(snapshot'[r]) + 1
<1>1. /\ pos[r] + 1 \in 1..MaxList + 1
      /\ pos[r] \in 1..Len(snapshot[r]) /\ Len(snapshot[r]) \in 0..MaxList
  BY PositionFacts, ListFacts DEF TypeOK
<1>2. AfterAlert(r, pos[r] + 1) \in {"lookup", "reply"}
  BY <1>1, AfterAlertFacts
<1>3. AfterAlert(r, pos[r] + 1) = "reply" => pos[r] + 1 = Len(snapshot[r]) + 1
  BY <1>1, FeedAssumption DEF AfterAlert
<1>4. QED
  BY <1>1, <1>2, <1>3, FeedAssumption

\* Alone, a key that was found is the key of an alert before.
LEMMA SuppressAlone ==
    ASSUME AInv, NEW r \in Request, Suppress(r)
    PROVE  ServedAlone' /\ AlonePrefix'
<1>1. /\ TypeOK /\ pc[r] = "record" /\ seen[r]
      /\ pc'[r] = AfterAlert(r, pos[r] + 1) /\ pos'[r] = pos[r] + 1
      /\ registry' = registry /\ active' = active
      /\ snapshot' = snapshot /\ overlapped' = overlapped
      /\ \A q \in Request \ {r} : pc'[q] = pc[q]
  BY DEF AInv, IInv, TypeOK, Suppress, history
<1>2. /\ pc'[r] \in {"lookup", "reply"} /\ pos'[r] - 1 = pos[r]
      /\ pc'[r] = "reply" => pos'[r] = Len(snapshot'[r]) + 1
  BY <1>1, PassMovesOn
<1>3. FirstPositions(r)' = FirstPositions(r)
  BY <1>1 DEF FirstPositions
<1>4. ASSUME ~overlapped[r]
      PROVE  /\ registry' = {snapshot'[r][i] : i \in 1..pos'[r] - 1}
             /\ active'[r] = {i \in FirstPositions(r)' : i < pos'[r]}
  <2>1. /\ registry = {snapshot[r][i] : i \in 1..pos[r] - 1}
        /\ active[r] = {i \in FirstPositions(r) : i < pos[r]}
        /\ snapshot[r][pos[r]] \in registry
    BY <1>1, <1>4 DEF AInv, AlonePrefix, AlonePrefixOf, Prioritizing
  <2>2. /\ {snapshot[r][i] : i \in 1..pos[r]} = registry \cup {snapshot[r][pos[r]]}
        /\ {i \in FirstPositions(r) : i < pos[r] + 1} = active[r]
    BY <1>1, <2>1, FirstOrNot
  <2>3. QED
    BY <1>1, <1>2, <1>3, <2>1, <2>2
<1>5. AlonePrefixOf(r)'
  BY <1>1, <1>2, <1>4 DEF AlonePrefixOf
<1>6. InFlight(r) /\ InFlight(r)'
  BY <1>1, <1>2 DEF InFlight
<1>7. QED
  BY <1>1, <1>5, <1>6, OnlyOneAlone

\* Alone, a key that was not found is new.
LEMMA FireAlone ==
    ASSUME AInv, NEW r \in Request, Fire(r)
    PROVE  ServedAlone' /\ AlonePrefix'
<1>1. /\ TypeOK /\ pc[r] = "record" /\ ~seen[r]
      /\ pc'[r] = AfterAlert(r, pos[r] + 1) /\ pos'[r] = pos[r] + 1
      /\ registry' = registry \cup {snapshot[r][pos[r]]}
      /\ active'[r] = active[r] \cup {pos[r]}
      /\ snapshot' = snapshot /\ overlapped' = overlapped
      /\ \A q \in Request \ {r} : pc'[q] = pc[q]
  BY DEF AInv, IInv, TypeOK, Fire
<1>2. /\ pc'[r] \in {"lookup", "reply"} /\ pos'[r] - 1 = pos[r]
      /\ pc'[r] = "reply" => pos'[r] = Len(snapshot'[r]) + 1
  BY <1>1, PassMovesOn
<1>3. FirstPositions(r)' = FirstPositions(r)
  BY <1>1 DEF FirstPositions
<1>4. ASSUME ~overlapped[r]
      PROVE  /\ registry' = {snapshot'[r][i] : i \in 1..pos'[r] - 1}
             /\ active'[r] = {i \in FirstPositions(r)' : i < pos'[r]}
  <2>1. /\ registry = {snapshot[r][i] : i \in 1..pos[r] - 1}
        /\ active[r] = {i \in FirstPositions(r) : i < pos[r]}
        /\ snapshot[r][pos[r]] \notin registry
    BY <1>1, <1>4 DEF AInv, AlonePrefix, AlonePrefixOf, Prioritizing
  <2>2. /\ {snapshot[r][i] : i \in 1..pos[r]} = registry \cup {snapshot[r][pos[r]]}
        /\ {i \in FirstPositions(r) : i < pos[r] + 1} = active[r] \cup {pos[r]}
    BY <1>1, <2>1, FirstOrNot
  <2>3. QED
    BY <1>1, <1>2, <1>3, <2>2
<1>5. AlonePrefixOf(r)'
  BY <1>1, <1>2, <1>4 DEF AlonePrefixOf
<1>6. InFlight(r) /\ InFlight(r)'
  BY <1>1, <1>2 DEF InFlight
<1>7. QED
  BY <1>1, <1>5, <1>6, OnlyOneAlone

\* A request that is gone leaves the others as alone as they were.
LEMMA ReplyAlone ==
    ASSUME AInv, NEW r \in Request, Reply(r)
    PROVE  ServedAlone' /\ AlonePrefix'
<1>1. /\ pc[r] = "reply" /\ pc'[r] = "idle" /\ registry' = registry
      /\ \A q \in Request \ {r} :
            /\ pc'[q] = pc[q] /\ snapshot'[q] = snapshot[q] /\ pos'[q] = pos[q]
            /\ seen'[q] = seen[q] /\ active'[q] = active[q]
            /\ overlapped'[q] = overlapped[q]
  BY DEF AInv, IInv, TypeOK, Reply
<1>2. ServedAlone'
  BY <1>1 DEF AInv, ServedAlone, InFlight
<1>3. ASSUME NEW q \in Request \ {r}, ~overlapped'[q]
      PROVE  pc'[q] = "idle"
  BY <1>1, <1>3 DEF AInv, ServedAlone, InFlight
<1>4. AlonePrefix'
  BY <1>1, <1>3 DEF AlonePrefix, AlonePrefixOf, Prioritizing
<1>5. QED
  BY <1>2, <1>4

LEMMA AloneInit == Init => AInv
BY FeedInit DEF Init, AInv, ServedAlone, AlonePrefix, AlonePrefixOf, InFlight, Prioritizing

LEMMA AloneStep == AInv /\ [Next]_vars => AInv'
<1> SUFFICES ASSUME AInv, [Next]_vars PROVE AInv'
  OBVIOUS
<1>1. IInv'
  BY FeedStep DEF AInv
<1>2. ASSUME UNCHANGED <<registry, local, history>> PROVE ServedAlone' /\ AlonePrefix'
  BY <1>2 DEF AInv, ServedAlone, AlonePrefix, AlonePrefixOf, InFlight, Prioritizing,
              FirstPositions, local, history
<1>3. ASSUME NEW list \in Lists, Publish(list) PROVE AInv'
  BY <1>1, <1>2, <1>3 DEF Publish, AInv
<1>4. CASE UNCHANGED vars
  BY <1>1, <1>2, <1>4 DEF vars, AInv
<1>5. ASSUME NEW r \in Request,
             \/ Begin(r) \/ ResetRegistry(r) \/ Lookup(r)
             \/ Suppress(r) \/ Fire(r) \/ Reply(r)
      PROVE AInv'
  BY <1>1, <1>5, BeginAlone, ResetAlone, LookupAlone, SuppressAlone, FireAlone, ReplyAlone
     DEF AInv
<1>6. QED
  BY <1>3, <1>4, <1>5 DEF Next

\* A request that is prioritized with no other one in flight answers with the first
\* alert of each key of its snapshot and nothing else, whatever earlier requests
\* have left in the registry.
THEOREM FreshWhenAlone == Spec => []AloneIsFresh
<1>1. AInv => AloneIsFresh
  <2> SUFFICES ASSUME AInv, NEW r \in Request, pc[r] = "reply", ~overlapped[r]
               PROVE  active[r] = FirstPositions(r)
    BY DEF AloneIsFresh
  <2>1. /\ active[r] = {i \in FirstPositions(r) : i < pos[r]}
        /\ pos[r] = Len(snapshot[r]) + 1
    BY DEF AInv, AlonePrefix, AlonePrefixOf, Prioritizing
  <2>2. Len(snapshot[r]) \in 0..MaxList /\ DOMAIN snapshot[r] = 1..Len(snapshot[r])
    BY ListFacts DEF AInv, IInv, TypeOK
  <2>3. \A i \in FirstPositions(r) : i < Len(snapshot[r]) + 1
    BY <2>2, FeedAssumption DEF FirstPositions
  <2>4. QED
    BY <2>1, <2>3
<1>2. QED
  BY <1>1, AloneInit, AloneStep, PTL DEF Spec
=============================================================================
