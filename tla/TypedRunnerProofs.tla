-------------------------- MODULE TypedRunnerProofs --------------------------
(***************************************************************************)
(* Proofs about TypedRunner, for any items, keys, runners, pool sizes,     *)
(* failure modes, faults and number of restarts.  The inductive invariant  *)
(* says who owns the in-flight call of a key (Control) and what the Store  *)
(* holds meanwhile (Contents); a second one, Books, which items each       *)
(* counter of the report has counted.                                      *)
(***************************************************************************)
EXTENDS TypedRunner, FiniteSetTheorems, TLAPS

------------------------------------------------------------------------------
(* Results                                                                   *)

Outcomes == {"value", "skipped", "quarantined", "error"}
Causes == FaultKinds \cup {"ctx", "admit"}
States == Causes \cup {"", "hit", "stored"}
AnyResult == [kind : Outcomes \cup {"none", "open"}, value : Values \cup {None}, state : States]

\* What a Result, an Error and the two marks of an inflightCall are made of.
LEMMA ResultFacts ==
    /\ NoResult \in AnyResult /\ NoResult.kind = "none"
    /\ Open \in AnyResult /\ Open.kind = "open"
    /\ \A c \in Causes : Error(c) \in AnyResult /\ Error(c).kind = "error"
    /\ \A k \in Outcomes, v \in Values \cup {None}, s \in States :
         /\ Result(k, v, s) \in AnyResult
         /\ Result(k, v, s).kind = k /\ Result(k, v, s).value = v
<1> USE DEF NoResult, Open, Error, Result, AnyResult, Outcomes, States
<1>1. NoResult \in AnyResult /\ NoResult.kind = "none"
  OBVIOUS
<1>2. Open \in AnyResult /\ Open.kind = "open"
  OBVIOUS
<1>3. \A c \in Causes : Error(c) \in AnyResult /\ Error(c).kind = "error"
  OBVIOUS
<1>4. \A k \in Outcomes, v \in Values \cup {None}, s \in States :
        /\ Result(k, v, s) \in AnyResult
        /\ Result(k, v, s).kind = k /\ Result(k, v, s).value = v
  OBVIOUS
<1> QED BY ONLY <1>1, <1>2, <1>3, <1>4

Types ==
    /\ run \in 1 .. MaxRuns
    /\ store \in [Keys -> Values \cup {None}]
    /\ call \in [Runners -> [Keys -> AnyResult]]
    /\ pc \in [Items -> PC]
    /\ leads \subseteq Items
    /\ got \in [Items -> Values \cup {None}]
    /\ result \in [Items -> AnyResult]

------------------------------------------------------------------------------
(* Leaders and followers                                                     *)

\* A leader's way to a result, and everybody's way from a result on.
Working == {"load", "backoff", "admit", "do", "store"}
Having == {"observe", "publish", "return", "ended"}

Call(i) == call[RunnerOf[i]][KeyOf[i]]

\* Item i at label with result x and paid work g.  Only the leader of a key works;
\* it holds the call open until it publishes, and whoever else has a result got it
\* from the closed call.
ControlAt(i, label, x, g) ==
    /\ label \in {"load", "follow", "store", "publish"} => IsCached(i)
    /\ label = "publish" => i \in leads
    /\ label = "store" => g # None
    /\ g # None => label \in Having \cup {"store"}
    /\ IsCached(i) /\ (label \in Working \/ g # None) => i \in leads
    /\ i \in leads => /\ IsCached(i) /\ label \in Working \cup Having
                      /\ Call(i) # NoResult
                      /\ label \notin {"return", "ended"} => Call(i) = Open
    /\ label = "follow" => Call(i) # NoResult
    /\ label \in Having => x.kind \in Outcomes
    /\ IsCached(i) /\ label \in Having /\ i \notin leads /\ x.kind # "error" =>
         Call(i) \notin {NoResult, Open}

\* A call has one leader, and a closed call an outcome.
OneLeader ==
    \A i, j \in leads : RunnerOf[i] = RunnerOf[j] /\ KeyOf[i] = KeyOf[j] => i = j

CallOK(r, k) ==
    /\ call[r][k] # NoResult => \E i \in leads : RunnerOf[i] = r /\ KeyOf[i] = k
    /\ call[r][k] \notin {NoResult, Open} => call[r][k].kind \in Outcomes

------------------------------------------------------------------------------
(* The Store                                                                 *)

Stored(x) == IF x.kind = "value" THEN x.value ELSE None

\* While the leader works nothing is stored under its key; then every result of
\* the key says what is stored, and work that was paid for is stored unless the
\* Store or a meter failed.
ContentsAt(i, label, x, g) ==
    /\ label \in Working \ {"load"} => store[KeyOf[i]] = None
    /\ label \in Having /\ x.kind # "error" => store[KeyOf[i]] = Stored(x)
    /\ label \in Having /\ g # None =>
         \/ store[KeyOf[i]] = g
         \/ label # "observe" /\ x \in {Error("store"), Error("meter")}

CallContents(r, k) ==
    call[r][k] \notin {NoResult, Open} /\ call[r][k].kind # "error" =>
      store[k] = Stored(call[r][k])

------------------------------------------------------------------------------
(* The inductive invariant                                                   *)

ItemAt(i, label, x, g) ==
    /\ ControlAt(i, label, x, g)
    /\ KeysApart /\ IsCached(i) => ContentsAt(i, label, x, g)

ItemOK(i) == ItemAt(i, pc[i], result[i], got[i])

Inv ==
    /\ Types
    /\ OneLeader
    /\ \A i \in Items : ItemOK(i)
    /\ \A r \in Runners, k \in Keys : CallOK(r, k)
    /\ KeysApart => \A r \in Runners, k \in Keys : CallContents(r, k)

\* It holds before any worker has started.
LEMMA InvInit == Init => Inv
<1> SUFFICES ASSUME Init PROVE Inv
  OBVIOUS
<1>1. Types
  <2>1. pc \in [Items -> PC] /\ run \in 1 .. MaxRuns /\ leads \subseteq Items
    BY RunnerAssumption DEF Init, PC
  <2>2. store \in [Keys -> Values \cup {None}] /\ got \in [Items -> Values \cup {None}]
    BY DEF Init
  <2>3. call \in [Runners -> [Keys -> AnyResult]] /\ result \in [Items -> AnyResult]
    BY ResultFacts, Zenon DEF Init
  <2> QED BY <2>1, <2>2, <2>3 DEF Types
<1>2. \A i \in Items : ItemOK(i)
  BY RunnerAssumption DEF Init, ItemOK, ItemAt, ControlAt, ContentsAt, Working, Having
<1>3. \A r \in Runners, k \in Keys : CallOK(r, k) /\ CallContents(r, k)
  BY DEF Init, CallOK, CallContents
<1> QED BY <1>1, <1>2, <1>3 DEF Init, Inv, OneLeader

\* The step of one item that touches neither a call nor the Store.
Moves(i, label, x, g) ==
    /\ pc' = [pc EXCEPT ![i] = label]
    /\ result' = [result EXCEPT ![i] = x]
    /\ got' = [got EXCEPT ![i] = g]
    /\ UNCHANGED <<run, store, call, leads>>

\* It keeps the invariant if it keeps what the invariant says of that item.
LEMMA MoveInv ==
    ASSUME Inv, NEW i \in Items, NEW label \in PC, NEW x \in AnyResult,
           NEW g \in Values \cup {None},
           Moves(i, label, x, g), ItemAt(i, label, x, g)
    PROVE  Inv'
<1>1. Types'
  BY DEF Inv, Types, Moves
<1>2. /\ pc'[i] = label /\ result'[i] = x /\ got'[i] = g
      /\ \A j \in Items \ {i} : pc'[j] = pc[j] /\ got'[j] = got[j] /\ result'[j] = result[j]
  BY DEF Inv, Types, Moves
<1>3. \A j \in Items : ItemOK(j)'
  <2>1. ItemOK(i)'
    BY <1>2 DEF Moves, ItemOK, ItemAt, ControlAt, ContentsAt, Call, Stored
  <2>2. \A j \in Items \ {i} : ItemOK(j)'
    BY <1>2 DEF Inv, Moves, ItemOK, ItemAt, ControlAt, ContentsAt, Call, Stored
  <2> QED BY <2>1, <2>2
<1>4. OneLeader' /\ \A r \in Runners, k \in Keys : CallOK(r, k)' /\ (KeysApart => CallContents(r, k)')
  BY DEF Inv, Moves, OneLeader, CallOK, CallContents, Stored
<1> QED BY <1>1, <1>3, <1>4 DEF Inv

\* What the invariant says of one item and its call.
LEMMA ItemFacts ==
    ASSUME Inv, NEW i \in Items
    PROVE  /\ RunnerOf[i] \in Runners /\ KeyOf[i] \in Keys
           /\ pc[i] \in PC
           /\ Call(i) \in AnyResult /\ result[i] \in AnyResult /\ got[i] \in Values \cup {None}
           /\ store[KeyOf[i]] \in Values \cup {None}
           /\ <<run, i>> \in Values /\ <<run, i>> # None
           /\ result = [result EXCEPT ![i] = result[i]]
           /\ got = [got EXCEPT ![i] = got[i]]
           /\ ItemAt(i, pc[i], result[i], got[i])
           /\ CallOK(RunnerOf[i], KeyOf[i])
           /\ KeysApart => CallContents(RunnerOf[i], KeyOf[i])
<1>1. Types /\ ItemOK(i) /\ RunnerOf[i] \in Runners /\ KeyOf[i] \in Keys
  BY RunnerAssumption DEF Inv
<1>2. run \in 1 .. MaxRuns
  BY <1>1 DEF Types
<1>3. <<run, i>> \in Values
  BY <1>2 DEF Values
<1> QED BY <1>1, <1>3, RunnerAssumption DEF Inv, Types, Call, ItemOK

\* process is about to return an error, from wherever it was.
LEMMA ErrorInv ==
    ASSUME Inv, NEW i \in Items, NEW c \in Causes, NEW g \in Values \cup {None},
           pc[i] \in Working \cup {"follow", "observe"},
           g = got[i] \/ (pc[i] = "do" /\ c = "meter"),
           pc[i] = "store" => c = "store",
           Resolve(i, Error(c)), got' = [got EXCEPT ![i] = g],
           UNCHANGED <<run, store, call, leads>>
    PROVE  Inv'
<1> DEFINE label == IF i \in leads THEN "publish" ELSE "return"
<1>1. Moves(i, label, Error(c), g)
  BY DEF Resolve, Goto, Moves
<1>2. Error(c) \in AnyResult /\ Error(c).kind = "error"
  BY ResultFacts
<1>3. ItemAt(i, label, Error(c), g)
  BY <1>2, ItemFacts DEF ItemAt, ControlAt, ContentsAt, Working, Having, Outcomes
<1>4. label \in PC
  BY DEF PC
<1> HIDE DEF label
<1> QED BY <1>1, <1>2, <1>3, <1>4, MoveInv

\* follow copies what its leader has published, or gives up with the context.
LEMMA FollowInv ==
    ASSUME Inv, NEW i \in Items, FollowCanceled(i) \/ FollowCall(i)
    PROVE  Inv'
<1>1. CASE FollowCanceled(i)
  <2>1. /\ pc[i] = "follow" /\ Resolve(i, Error("ctx"))
        /\ got' = [got EXCEPT ![i] = got[i]] /\ UNCHANGED <<run, store, call, leads>>
    BY <1>1, ItemFacts DEF FollowCanceled
  <2> QED BY <2>1, ErrorInv, ItemFacts DEF Causes
<1>2. CASE FollowCall(i)
  <2> DEFINE x == Call(i)
             label == IF x.kind = "error" THEN "return" ELSE "observe"
  <2>1. pc[i] = "follow" /\ x # Open /\ Moves(i, label, x, got[i])
    BY <1>2, ItemFacts DEF FollowCall, Goto, Moves, Call
  <2>2. ItemAt(i, label, x, got[i])
    BY <2>1, ItemFacts
    DEF ItemAt, ControlAt, ContentsAt, CallOK, CallContents, Call, Working, Having
  <2>3. label \in PC /\ x \in AnyResult /\ got[i] \in Values \cup {None}
    BY ItemFacts DEF PC
  <2> HIDE DEF x, label
  <2> QED BY <2>1, <2>2, <2>3, MoveInv
<1> QED BY <1>1, <1>2

\* lead asks the Store: an error, a hit, or a miss.
LEMMA LoadInv ==
    ASSUME Inv, NEW i \in Items, Load(i)
    PROVE  Inv'
<1> DEFINE s == store[KeyOf[i]]
           hit == Result("value", s, "hit")
<1>0. pc[i] = "load" /\ UNCHANGED <<run, store, call, leads, got>>
  BY DEF Load
<1>1. CASE Resolve(i, Error("load"))
  <2>1. got' = [got EXCEPT ![i] = got[i]]
    BY <1>0, ItemFacts
  <2> QED BY <1>0, <1>1, <2>1, ErrorInv, ItemFacts DEF Causes, FaultKinds, Working
<1>2. CASE s # None /\ result' = [result EXCEPT ![i] = hit] /\ Goto(i, "observe")
  <2>1. Moves(i, "observe", hit, got[i])
    BY <1>0, <1>2, ItemFacts DEF Goto, Moves
  <2>2. hit \in AnyResult /\ hit.kind = "value" /\ hit.value = s
    <3>1. s \in Values \cup {None} /\ "value" \in Outcomes /\ "hit" \in States
      BY ItemFacts DEF Outcomes, States
    <3> QED BY <3>1, ResultFacts
  <2> HIDE DEF hit
  <2>3. ItemAt(i, "observe", hit, got[i])
    BY <1>0, <2>2, ItemFacts DEF ItemAt, ControlAt, ContentsAt, Stored, Working, Having, Outcomes
  <2> QED BY <2>1, <2>2, <2>3, ItemFacts, MoveInv DEF PC
<1>3. CASE s = None /\ UNCHANGED result /\ Goto(i, "admit")
  <2>1. Moves(i, "admit", result[i], got[i])
    BY <1>0, <1>3, ItemFacts DEF Goto, Moves
  <2>2. ItemAt(i, "admit", result[i], got[i])
    BY <1>0, <1>3, ItemFacts DEF ItemAt, ControlAt, ContentsAt, Working, Having
  <2> QED BY <2>1, <2>2, ItemFacts, MoveInv DEF PC
<1> QED BY <1>1, <1>2, <1>3 DEF Load, Hit, Miss

\* The loop of work: admission, retries and backoff keep the call open.
LEMMA LoopInv ==
    ASSUME Inv, NEW i \in Items, Admit(i) \/ DoRetries(i) \/ BackOff(i)
    PROVE  Inv'
<1>0. pc[i] \in {"admit", "do", "backoff"} /\ UNCHANGED <<run, store, call, leads, got>>
  BY DEF Admit, DoRetries, BackOff
<1>1. ASSUME NEW label \in {"admit", "do", "backoff"}, Goto(i, label), UNCHANGED result
      PROVE  Inv'
  <2>1. Moves(i, label, result[i], got[i])
    BY <1>0, <1>1, ItemFacts DEF Goto, Moves
  <2>2. ItemAt(i, label, result[i], got[i])
    BY <1>0, ItemFacts DEF ItemAt, ControlAt, ContentsAt, Working, Having
  <2>3. label \in PC
    BY DEF PC
  <2> QED BY <2>1, <2>2, <2>3, ItemFacts, MoveInv
<1>2. ASSUME NEW c \in {"admit", "ledger", "ctx"}, Resolve(i, Error(c))
      PROVE  Inv'
  <2>1. got' = [got EXCEPT ![i] = got[i]]
    BY <1>0, ItemFacts
  <2> QED BY <1>0, <1>2, <2>1, ErrorInv, ItemFacts DEF Causes, FaultKinds, Working
<1> QED BY <1>1, <1>2 DEF Admit, DoRetries, BackOff

\* Do returns: a value, a meter's overflow, an error with the context done, or a
\* last error.
LEMMA DoInv ==
    ASSUME Inv, NEW i \in Items,
           DoSucceeds(i) \/ DoOverflows(i) \/ DoCanceled(i) \/ DoFails(i)
    PROVE  Inv'
<1> DEFINE paid == <<run, i>>
<1>0. pc[i] = "do" /\ UNCHANGED <<run, store, call, leads>>
  BY DEF DoSucceeds, DoOverflows, DoCanceled, DoFails
<1>1. ASSUME NEW c \in Causes, Resolve(i, Error(c)), NEW g \in {got[i], paid},
             got' = [got EXCEPT ![i] = g], g = got[i] \/ c = "meter"
      PROVE  Inv'
  <2>1. g \in Values \cup {None}
    BY ItemFacts
  <2> QED BY <1>0, <1>1, <2>1, ErrorInv DEF Working
<1>2. ASSUME NEW kind \in {"skipped", "quarantined"}, UNCHANGED got, Goto(i, "observe"),
             result' = [result EXCEPT ![i] = Result(kind, None, "")]
      PROVE  Inv'
  <2> DEFINE x == Result(kind, None, "")
  <2>1. Moves(i, "observe", x, got[i])
    BY <1>0, <1>2, ItemFacts DEF Goto, Moves
  <2>2. x \in AnyResult /\ x.kind = kind
    <3>1. kind \in Outcomes /\ "" \in States /\ None \in Values \cup {None}
      BY DEF Outcomes, States
    <3> QED BY <3>1, ResultFacts
  <2> HIDE DEF x
  <2>3. ItemAt(i, "observe", x, got[i])
    BY <1>0, <2>2, ItemFacts DEF ItemAt, ControlAt, ContentsAt, Stored, Working, Having, Outcomes
  <2>4. "observe" \in PC
    BY DEF PC
  <2> QED BY <2>1, <2>2, <2>3, <2>4, ItemFacts, MoveInv
<1>3. CASE DoSucceeds(i) /\ IsCached(i)
  <2>1. Moves(i, "store", result[i], paid)
    BY <1>0, <1>3, ItemFacts DEF DoSucceeds, Goto, Moves
  <2>2. paid \in Values /\ paid # None
    BY ItemFacts
  <2> HIDE DEF paid
  <2>3. ItemAt(i, "store", result[i], paid)
    BY <1>0, <1>3, <2>2, ItemFacts DEF ItemAt, ControlAt, ContentsAt, Working, Having
  <2>4. "store" \in PC
    BY DEF PC
  <2> QED BY <2>1, <2>2, <2>3, <2>4, ItemFacts, MoveInv
<1>4. CASE DoSucceeds(i) /\ ~IsCached(i)
  <2> DEFINE x == Result("value", paid, "")
  <2>1. Moves(i, "observe", x, paid)
    BY <1>0, <1>4 DEF DoSucceeds, Goto, Moves
  <2>2. paid \in Values /\ paid # None
    BY ItemFacts
  <2>3. x \in AnyResult /\ x.kind = "value"
    <3>1. "value" \in Outcomes /\ "" \in States /\ paid \in Values \cup {None}
      BY <2>2 DEF Outcomes, States
    <3> HIDE DEF paid
    <3> QED BY ONLY <3>1, ResultFacts
  <2> HIDE DEF x, paid
  <2>4. ItemAt(i, "observe", x, paid)
    BY <1>0, <1>4, <2>3, ItemFacts DEF ItemAt, ControlAt, Working, Having, Outcomes
  <2>5. "observe" \in PC
    BY DEF PC
  <2> QED BY <2>1, <2>2, <2>3, <2>4, <2>5, MoveInv
<1>5. CASE DoOverflows(i)
  <2>1. \E g \in {got[i], paid} : got' = [got EXCEPT ![i] = g]
    BY <1>5, ItemFacts DEF DoOverflows
  <2>2. Resolve(i, Error("meter")) /\ "meter" \in Causes
    BY <1>5 DEF DoOverflows, Causes, FaultKinds
  <2> HIDE DEF paid
  <2> QED BY <1>1, <2>1, <2>2
<1>6. CASE DoCanceled(i) \/ DoFails(i)
  <2>1. got' = [got EXCEPT ![i] = got[i]] /\ UNCHANGED got
    BY <1>6, ItemFacts DEF DoCanceled, DoFails
  <2>2. \/ \E c \in Causes : Resolve(i, Error(c))
        \/ \E kind \in {"skipped", "quarantined"} :
             Goto(i, "observe") /\ result' = [result EXCEPT ![i] = Result(kind, None, "")]
    BY <1>6 DEF DoCanceled, DoFails, Fail, Causes, FaultKinds
  <2> HIDE DEF paid
  <2> QED BY <1>1, <1>2, <2>1, <2>2
<1> QED BY <1>3, <1>4, <1>5, <1>6

\* The Store takes the value, or fails: nobody else relies on the empty entry.
LEMMA CommitInv ==
    ASSUME Inv, NEW i \in Items, Commit(i)
    PROVE  Inv'
<1> DEFINE k == KeyOf[i]
           x == Result("value", got[i], "stored")
<1>0. pc[i] = "store" /\ UNCHANGED <<run, call, leads, got>>
  BY DEF Commit
<1>1. CASE Resolve(i, Error("store")) /\ UNCHANGED store
  <2>1. got' = [got EXCEPT ![i] = got[i]]
    BY <1>0, ItemFacts
  <2> QED BY <1>0, <1>1, <2>1, ErrorInv, ItemFacts DEF Causes, FaultKinds, Working
<1>2. CASE StoreValue(i) /\ result' = [result EXCEPT ![i] = x] /\ Goto(i, "observe")
  <2>1. x \in AnyResult /\ x.kind = "value" /\ x.value = got[i]
    <3>1. got[i] \in Values \cup {None} /\ "value" \in Outcomes /\ "stored" \in States
      BY ItemFacts DEF Outcomes, States
    <3> QED BY ONLY <3>1, ResultFacts
  <2>2. IsCached(i) /\ i \in leads /\ got[i] # None /\ Call(i) = Open
    BY <1>0, ItemFacts DEF ItemAt, ControlAt, Working
  <2> HIDE DEF x
  <2>3. Types'
    <3>1. Types /\ "observe" \in PC /\ got[i] \in Values \cup {None}
      BY ItemFacts DEF Inv, PC
    <3> QED BY <1>0, <1>2, <2>1, <3>1 DEF Types, StoreValue, Goto
  <2>4. /\ pc'[i] = "observe" /\ result'[i] = x /\ got'[i] = got[i] /\ store'[k] = got[i]
        /\ \A j \in Items \ {i} : pc'[j] = pc[j] /\ result'[j] = result[j] /\ got'[j] = got[j]
        /\ \A j \in Items : KeyOf[j] # k => store'[KeyOf[j]] = store[KeyOf[j]]
        /\ \A l \in Keys \ {k} : store'[l] = store[l]
    BY <1>0, <1>2, RunnerAssumption DEF Inv, Types, StoreValue, Goto
  <2>5. ItemOK(i)'
    <3>0. x' = x /\ Open # NoResult
      BY <1>0, ResultFacts DEF x
    <3>1. ControlAt(i, "observe", x, got[i])'
      BY <1>0, <2>1, <2>2, <3>0 DEF ControlAt, Call, IsCached, Working, Having, Outcomes
    <3>2. ContentsAt(i, "observe", x, got[i])'
      BY <1>0, <2>1, <2>4 DEF ContentsAt, Stored, Working, x
    <3> QED BY <2>4, <3>1, <3>2 DEF ItemOK, ItemAt, ControlAt, ContentsAt, Call, x
  <2>6. ASSUME NEW j \in Items \ {i} PROVE ItemOK(j)'
    <3>1. ControlAt(j, pc[j], result[j], got[j])'
      BY <1>0, <2>4 DEF Inv, ItemOK, ItemAt, ControlAt, Call, IsCached
    <3>2. ASSUME KeysApart, IsCached(j) PROVE ContentsAt(j, pc[j], result[j], got[j])'
      <4>1. ItemAt(j, pc[j], result[j], got[j])
        BY DEF Inv, ItemOK
      <4>2. CASE KeyOf[j] = k
        <5>1. RunnerOf[j] = RunnerOf[i]
          BY <2>2, <3>2, <4>2 DEF KeysApart, IsCached
        <5>2. j \notin leads
          BY <2>2, <4>2, <5>1 DEF Inv, OneLeader
        <5>3. Call(j) = Open
          BY <2>2, <4>2, <5>1 DEF Call
        <5> QED BY <2>4, <3>2, <4>1, <5>2, <5>3 DEF ItemAt, ControlAt, ContentsAt
      <4>3. CASE KeyOf[j] # k
        BY <2>4, <3>2, <4>1, <4>3 DEF ItemAt, ContentsAt, Stored
      <4> QED BY <4>2, <4>3
    <3> QED BY <3>1, <3>2 DEF ItemOK, ItemAt, IsCached
  <2>7. OneLeader' /\ \A r \in Runners, l \in Keys : CallOK(r, l)'
    BY <1>0 DEF Inv, OneLeader, CallOK
  <2>8. ASSUME KeysApart, NEW r \in Runners, NEW l \in Keys PROVE CallContents(r, l)'
    <3>1. CallOK(r, l) /\ CallContents(r, l)
      BY <2>8 DEF Inv
    <3>2. CASE l = k /\ call[r][l] # NoResult
      <4>1. PICK j \in leads : RunnerOf[j] = r /\ KeyOf[j] = l
        BY <3>1, <3>2 DEF CallOK
      <4>2. j \in Items /\ IsCached(j)
        BY DEF Inv, Types, ItemOK, ItemAt, ControlAt
      <4>3. r = RunnerOf[i]
        BY <2>2, <2>8, <3>2, <4>1, <4>2 DEF KeysApart, IsCached
      <4> QED BY <1>0, <2>2, <3>2, <4>3 DEF Call, CallContents
    <3>3. CASE l # k
      BY <1>0, <2>4, <3>1, <3>3 DEF CallContents, Stored
    <3>4. CASE call[r][l] = NoResult
      BY <1>0, <3>4 DEF CallContents
    <3> QED BY <3>2, <3>3, <3>4
  <2> QED BY <2>3, <2>5, <2>6, <2>7, <2>8 DEF Inv
<1> QED BY <1>1, <1>2 DEF Commit

\* The ledger and the hook confirm the result or turn it into an error.
LEMMA ObserveInv ==
    ASSUME Inv, NEW i \in Items, Observe(i)
    PROVE  Inv'
<1>0. /\ pc[i] = "observe" /\ UNCHANGED <<run, store, call, leads>>
      /\ got' = [got EXCEPT ![i] = got[i]]
  BY ItemFacts DEF Observe
<1>1. ASSUME NEW c \in {"ledger", "hook"}, Resolve(i, Error(c)) PROVE Inv'
  BY <1>0, <1>1, ErrorInv, ItemFacts DEF Causes, FaultKinds, Working
<1>2. CASE Resolve(i, result[i])
  <2> DEFINE label == IF i \in leads THEN "publish" ELSE "return"
  <2>1. Moves(i, label, result[i], got[i])
    BY <1>0, <1>2 DEF Resolve, Goto, Moves
  <2>2. ItemAt(i, label, result[i], got[i])
    BY <1>0, ItemFacts DEF ItemAt, ControlAt, ContentsAt, Working, Having
  <2>3. label \in PC
    BY DEF PC
  <2> HIDE DEF label
  <2> QED BY <2>1, <2>2, <2>3, ItemFacts, MoveInv
<1> QED BY <1>1, <1>2 DEF Observe

\* process returns to the worker.
LEMMA ReturnInv ==
    ASSUME Inv, NEW i \in Items, Return(i)
    PROVE  Inv'
<1>1. pc[i] = "return" /\ Moves(i, "ended", result[i], got[i])
  BY ItemFacts DEF Return, Goto, Moves
<1>2. ItemAt(i, "ended", result[i], got[i])
  BY <1>1, ItemFacts DEF ItemAt, ControlAt, ContentsAt, Working, Having
<1>3. "ended" \in PC
  BY DEF PC
<1> QED BY <1>1, <1>2, <1>3, ItemFacts, MoveInv

\* The leader closes its call with a result that says what is stored.
LEMMA PublishInv ==
    ASSUME Inv, NEW i \in Items, Publish(i)
    PROVE  Inv'
<1> DEFINE R == RunnerOf[i]
           k == KeyOf[i]
           x == result[i]
<1>0. /\ pc[i] = "publish" /\ UNCHANGED <<run, store, leads, got, result>>
      /\ call' = [call EXCEPT ![R][k] = x] /\ pc' = [pc EXCEPT ![i] = "return"]
  BY DEF Publish, Goto
<1>1. /\ IsCached(i) /\ i \in leads /\ x.kind \in Outcomes /\ x \in AnyResult
      /\ KeysApart => ContentsAt(i, "publish", x, got[i])
  BY <1>0, ItemFacts DEF ItemAt, ControlAt, Having
<1>2. x # NoResult /\ x # Open
  BY <1>1, ResultFacts DEF Outcomes
<1>3. Types'
  <2>1. "return" \in PC
    BY DEF PC
  <2>2. call' \in [Runners -> [Keys -> AnyResult]]
    BY <1>0, <1>1 DEF Inv, Types
  <2> QED BY <1>0, <2>1, <2>2 DEF Inv, Types
<1>4. /\ call'[R][k] = x
      /\ \A r \in Runners, l \in Keys : <<r, l>> # <<R, k>> => call'[r][l] = call[r][l]
  BY <1>0, RunnerAssumption DEF Inv, Types
<1>5. ASSUME NEW j \in Items PROVE ItemOK(j)'
  <2>0. /\ RunnerOf[j] \in Runners /\ KeyOf[j] \in Keys
        /\ ItemAt(j, pc[j], result[j], got[j])
    BY ItemFacts
  <2>1. pc'[j] = IF j = i THEN "return" ELSE pc[j]
    BY <1>0 DEF Inv, Types
  <2>2. Call(j)' = IF RunnerOf[j] = R /\ KeyOf[j] = k THEN x ELSE Call(j)
    BY <1>4, <2>0 DEF Call
  <2>3. j \in leads /\ RunnerOf[j] = R /\ KeyOf[j] = k => j = i
    BY <1>1 DEF Inv, OneLeader
  <2>4. ControlAt(j, pc[j], result[j], got[j])'
    BY <1>0, <1>1, <1>2, <2>0, <2>1, <2>2, <2>3
    DEF ItemAt, ControlAt, IsCached, Working, Having
  <2>5. KeysApart /\ IsCached(j) => ContentsAt(j, pc[j], result[j], got[j])'
    BY <1>0, <2>0, <2>1 DEF ItemAt, ContentsAt, Stored, Working, Having
  <2> QED BY <2>4, <2>5 DEF ItemOK, ItemAt, IsCached
<1>6. ASSUME NEW r \in Runners, NEW l \in Keys
      PROVE  CallOK(r, l)' /\ (KeysApart => CallContents(r, l)')
  <2>1. CASE r = R /\ l = k
    BY <1>0, <1>1, <1>2, <1>4, <2>1 DEF CallOK, CallContents, ContentsAt, Stored, Having
  <2>2. CASE ~(r = R /\ l = k)
    <3>1. call'[r][l] = call[r][l]
      BY <1>4, <2>2
    <3> QED BY <1>0, <3>1 DEF Inv, CallOK, CallContents, Stored
  <2> QED BY <2>1, <2>2
<1>7. OneLeader'
  BY <1>0 DEF Inv, OneLeader
<1> QED BY <1>3, <1>5, <1>6, <1>7 DEF Inv

\* A worker takes an item: work, a key error, or the call of its key, which the
\* item follows or, being the first, leads.
LEMMA ProcessInv ==
    ASSUME Inv, NEW i \in Items, Process(i)
    PROVE  Inv'
<1> DEFINE R == RunnerOf[i]
           k == KeyOf[i]
<1>0. pc[i] = "idle" /\ UNCHANGED <<run, store, got>>
  BY DEF Process
<1>1. CASE ~IsCached(i) /\ Goto(i, "admit") /\ UNCHANGED <<call, leads, result>>
  <2>1. Moves(i, "admit", result[i], got[i])
    BY <1>0, <1>1, ItemFacts DEF Goto, Moves
  <2>2. ItemAt(i, "admit", result[i], got[i])
    BY <1>0, <1>1, ItemFacts DEF ItemAt, ControlAt, Working, Having
  <2>3. "admit" \in PC
    BY DEF PC
  <2> QED BY <2>1, <2>2, <2>3, ItemFacts, MoveInv
<1>2. CASE /\ result' = [result EXCEPT ![i] = Error("key")] /\ Goto(i, "return")
           /\ UNCHANGED <<call, leads>>
  <2>1. Moves(i, "return", Error("key"), got[i])
    BY <1>0, <1>2, ItemFacts DEF Goto, Moves
  <2>2. Error("key") \in AnyResult /\ Error("key").kind = "error"
    BY ResultFacts DEF Causes, FaultKinds
  <2>3. ItemAt(i, "return", Error("key"), got[i])
    BY <1>0, <2>2, ItemFacts DEF ItemAt, ControlAt, ContentsAt, Working, Having, Outcomes
  <2>4. "return" \in PC
    BY DEF PC
  <2> QED BY <2>1, <2>2, <2>3, <2>4, ItemFacts, MoveInv
<1>3. CASE /\ IsCached(i) /\ call[R][k] # NoResult /\ Goto(i, "follow")
           /\ UNCHANGED <<call, leads, result>>
  <2>1. Moves(i, "follow", result[i], got[i])
    BY <1>0, <1>3, ItemFacts DEF Goto, Moves
  <2>2. ItemAt(i, "follow", result[i], got[i])
    BY <1>0, <1>3, ItemFacts DEF ItemAt, ControlAt, ContentsAt, Call, Working, Having
  <2>3. "follow" \in PC
    BY DEF PC
  <2> QED BY <2>1, <2>2, <2>3, ItemFacts, MoveInv
<1>4. CASE /\ IsCached(i) /\ call[R][k] = NoResult
           /\ call' = [call EXCEPT ![R][k] = Open] /\ leads' = leads \cup {i}
           /\ Goto(i, "load") /\ UNCHANGED result
  <2>0. Open \in AnyResult /\ Open # NoResult /\ "load" \in PC
    BY ResultFacts DEF PC
  <2>1. Types'
    <3>1. call' \in [Runners -> [Keys -> AnyResult]]
      BY <1>4, <2>0 DEF Inv, Types
    <3> QED BY <1>0, <1>4, <2>0, <3>1 DEF Inv, Types, Goto
  <2>2. /\ call'[R][k] = Open
        /\ \A r \in Runners, l \in Keys : <<r, l>> # <<R, k>> => call'[r][l] = call[r][l]
    BY <1>4, RunnerAssumption DEF Inv, Types
  <2>3. ASSUME NEW j \in leads PROVE j \in Items /\ ~(RunnerOf[j] = R /\ KeyOf[j] = k)
    BY <1>4 DEF Inv, Types, ItemOK, ItemAt, ControlAt, Call
  <2>4. OneLeader'
    BY <1>4, <2>3 DEF Inv, OneLeader
  <2>5. ASSUME NEW j \in Items PROVE ItemOK(j)'
    <3>0. /\ RunnerOf[j] \in Runners /\ KeyOf[j] \in Keys
          /\ ItemAt(j, pc[j], result[j], got[j])
      BY ItemFacts
    <3>1. pc'[j] = IF j = i THEN "load" ELSE pc[j]
      BY <1>4 DEF Inv, Types, Goto
    <3>2. Call(j)' = IF RunnerOf[j] = R /\ KeyOf[j] = k THEN Open ELSE Call(j)
      BY <2>2, <3>0 DEF Call
    <3>3. RunnerOf[j] = R /\ KeyOf[j] = k => Call(j) = NoResult /\ j \notin leads
      BY <1>4, <2>3 DEF Call
    <3>4. ControlAt(j, pc[j], result[j], got[j])'
      BY <1>0, <1>4, <2>0, <3>0, <3>1, <3>2, <3>3
      DEF ItemAt, ControlAt, IsCached, Working, Having
    <3>5. KeysApart /\ IsCached(j) => ContentsAt(j, pc[j], result[j], got[j])'
      BY <1>0, <1>4, <3>0, <3>1 DEF ItemAt, ContentsAt, Stored, Working, Having
    <3> QED BY <3>4, <3>5 DEF ItemOK, ItemAt, IsCached
  <2>6. ASSUME NEW r \in Runners, NEW l \in Keys
        PROVE  CallOK(r, l)' /\ (KeysApart => CallContents(r, l)')
    <3>1. CASE r = R /\ l = k
      BY <1>4, <2>2, <3>1 DEF CallOK, CallContents
    <3>2. CASE ~(r = R /\ l = k)
      <4>1. call'[r][l] = call[r][l]
        BY <2>2, <3>2
      <4> QED BY <1>0, <1>4, <4>1 DEF Inv, CallOK, CallContents, Stored
    <3> QED BY <3>1, <3>2
  <2> QED BY <2>1, <2>4, <2>5, <2>6 DEF Inv
<1> QED BY <1>1, <1>2, <1>3, <1>4 DEF Process

\* A restart forgets everything but the Store.
LEMMA RestartInv == Inv /\ Restart => Inv'
<1> SUFFICES ASSUME Inv, Restart PROVE Inv'
  OBVIOUS
<1>1. Types'
  <2>1. pc' \in [Items -> PC] /\ leads' \subseteq Items
    BY DEF Restart, Fresh, PC
  <2>2. run' \in 1 .. MaxRuns /\ store' \in [Keys -> Values \cup {None}]
    BY RunnerAssumption DEF Inv, Types, Restart
  <2>3. got' \in [Items -> Values \cup {None}]
    BY DEF Restart, Fresh
  <2>4. call' \in [Runners -> [Keys -> AnyResult]] /\ result' \in [Items -> AnyResult]
    BY ResultFacts, Zenon DEF Restart, Fresh
  <2> QED BY <2>1, <2>2, <2>3, <2>4 DEF Types
<1>2. \A i \in Items : ItemOK(i)'
  BY RunnerAssumption
  DEF Restart, Fresh, ItemOK, ItemAt, ControlAt, ContentsAt, Working, Having
<1>3. \A r \in Runners, k \in Keys : CallOK(r, k)' /\ CallContents(r, k)'
  BY DEF Restart, Fresh, CallOK, CallContents
<1>4. OneLeader'
  BY DEF Restart, Fresh, OneLeader
<1> QED BY <1>1, <1>2, <1>3, <1>4 DEF Inv

\* Every step of the program keeps the invariant.
LEMMA InvStep == Inv /\ [Next]_vars => Inv'
<1> SUFFICES ASSUME Inv, [Next]_vars PROVE Inv'
  OBVIOUS
<1>1. ASSUME NEW i \in Items, Process(i) \/ ItemStep(i) PROVE Inv'
  BY <1>1, ProcessInv, PublishInv, ReturnInv, FollowInv, LoadInv, LoopInv, DoInv, CommitInv,
     ObserveInv DEF ItemStep
<1>2. ASSUME UNCHANGED <<run, store, call, pc, leads, got, result>> PROVE Inv'
  BY <1>2 DEF Inv, Types, OneLeader, ItemOK, ItemAt, ControlAt, ContentsAt, Call, CallOK,
              CallContents, Stored, IsCached
<1>3. ASSUME NEW r \in Runners, Cancel(r) PROVE Inv'
  BY <1>2, <1>3 DEF Cancel
<1>4. CASE UNCHANGED vars
  BY <1>2, <1>4 DEF vars
<1> QED BY <1>1, <1>3, <1>4, RestartInv DEF Next

\* The invariant holds of every behaviour.
LEMMA InvHolds == Spec => []Inv
BY InvInit, InvStep, PTL DEF Spec

------------------------------------------------------------------------------
(* The report                                                                *)

\* The counters that count items, each item at most once.
PerItem == {"Items", "Hits", "Misses", "Quarantined", "Skipped", "Stored", "StartedSequences"}

One(condition) == IF condition THEN 1 ELSE 0

\* Whether counter c has counted item i, which stands at label with result x, paid
\* work g and attempt a, when the items in who lead.
CountedAt(c, i, label, x, g, a, who) ==
    \/ c = "Items" /\ label # "idle"
    \/ c = "Hits" /\ x.state = "hit"
    \/ /\ c = "Misses" /\ IsCached(i)
       /\ label \in Working \ {"load"} \/ (label \in Having /\ x.state # "hit")
    \/ c = "Quarantined" /\ x.kind = "quarantined"
    \/ c = "Skipped" /\ x.kind = "skipped"
    \/ c = "Stored" /\ i \in who /\ g # None /\ label # "store"
    \/ /\ c = "StartedSequences"
       /\ \/ label \in {"do", "backoff", "store"} \/ a > 1
          \/ label \in Having /\ (i \in who \/ ~IsCached(i)) /\ x.state # "hit"

\* Its sequence has one work call less than first attempts and retries.
OwesAt(label, a) == label \in {"do", "backoff"} \/ (label = "admit" /\ a > 1)

Counted(c, i) == CountedAt(c, i, pc[i], result[i], got[i], attempt[i], leads)
Tally(c, r) == {i \in Of(r) : Counted(c, i)}
Owing(r) == {i \in Of(r) : OwesAt(pc[i], attempt[i])}

\* The attempts of i that were given up for another one.
RetriedAt(n, label, a) == n < a \/ (n = a /\ label = "backoff")
Retried(r) == {p \in Of(r) \X (1 .. Attempts - 1) : RetriedAt(p[2], pc[p[1]], attempt[p[1]])}

Clean(r) == \A i \in Of(r) : result[i].kind # "error"

Balanced(r) ==
    /\ \A c \in PerItem : counts[r][c] = Cardinality(Tally(c, r))
    /\ counts[r]["Retries"] = Cardinality(Retried(r))
    /\ counts[r]["WorkCalls"] + Cardinality(Owing(r))
         = counts[r]["StartedSequences"] + counts[r]["Retries"]

\* What the report relies on of one item: it is given, its attempts are within the
\* policy, only a finished item has a result, and only a cached one a hit.
EntryAt(i, label, x, a) ==
    /\ label # "idle" => i \in input
    /\ a \in 1 .. Attempts
    /\ label = "backoff" => a < Attempts
    /\ label \in {"idle", "load", "follow"} => a = 1
    /\ label \notin Having => x = NoResult
    /\ x.kind = "error" => label \in {"publish", "return", "ended"}
    /\ x.state = "hit" => x.kind = "value" /\ IsCached(i)

Entry(i) == EntryAt(i, pc[i], result[i], attempt[i])

Books ==
    /\ input \in Inputs
    /\ attempt \in [Items -> Nat]
    /\ counts \in [Runners -> [Counters -> Nat]]
    /\ \A i \in Items : Entry(i)
    /\ \A r \in Runners, k \in Keys : call[r][k].state = "hit" => call[r][k].kind = "value"
    /\ \A r \in Runners : Clean(r) => Balanced(r)

\* Adding or removing one element changes the size of a set by one.
LEMMA Swap ==
    ASSUME NEW A, NEW B, NEW e, IsFiniteSet(A), \A d : d # e => (d \in A <=> d \in B)
    PROVE  /\ IsFiniteSet(B) /\ Cardinality(A) \in Nat /\ Cardinality(B) \in Nat
           /\ Cardinality(B) + One(e \in A) = Cardinality(A) + One(e \in B)
<1>1. CASE (e \in A) <=> (e \in B)
  <2>1. A = B
    BY <1>1
  <2> QED BY <2>1, FS_CardinalityType DEF One
<1>2. CASE e \in A /\ e \notin B
  <2>1. B = A \ {e}
    BY <1>2
  <2>2. IsFiniteSet(B) /\ Cardinality(B) = Cardinality(A) - 1
    BY <1>2, <2>1, FS_RemoveElement
  <2> QED BY <1>2, <2>2, FS_CardinalityType DEF One
<1>3. CASE e \notin A /\ e \in B
  <2>1. B = A \cup {e}
    BY <1>3
  <2>2. IsFiniteSet(B) /\ Cardinality(B) = Cardinality(A) + 1
    BY <1>3, <2>1, FS_AddElement
  <2> QED BY <1>3, <2>2, FS_CardinalityType DEF One
<1> QED BY <1>1, <1>2, <1>3

\* The step of item i that counts names.
Enters(i, label, x, g, a, who, names) ==
    /\ pc' = [pc EXCEPT ![i] = label]
    /\ result' = [result EXCEPT ![i] = x]
    /\ got' = [got EXCEPT ![i] = g]
    /\ attempt' = [attempt EXCEPT ![i] = a]
    /\ leads' = who /\ who \in {leads, leads \cup {i}}
    /\ Count(i, names)
    /\ UNCHANGED input

\* It counts what it should.
Accounts(i, label, x, g, a, who, names) ==
    /\ result[i].kind # "error"
    /\ \A c \in PerItem :
         /\ c \in names => ~Counted(c, i)
         /\ CountedAt(c, i, label, x, g, a, who) <=> Counted(c, i) \/ c \in names
    /\ One(OwesAt(label, a)) + One("WorkCalls" \in names)
         = One(OwesAt(pc[i], attempt[i])) + One("StartedSequences" \in names)
             + One("Retries" \in names)
    /\ "Retries" \in names => attempt[i] < Attempts /\ ~RetriedAt(attempt[i], pc[i], attempt[i])
    /\ \A n \in 1 .. Attempts - 1 :
         RetriedAt(n, label, a) <=>
           RetriedAt(n, pc[i], attempt[i]) \/ ("Retries" \in names /\ n = attempt[i])

\* The items of a runner, and with them its tallies, are finite.
LEMMA FiniteTallies ==
    ASSUME Books, NEW r \in Runners
    PROVE  /\ IsFiniteSet(Of(r)) /\ IsFiniteSet(Owing(r)) /\ IsFiniteSet(Retried(r))
           /\ \A c \in PerItem : IsFiniteSet(Tally(c, r))
<1>1. IsFiniteSet(input)
  BY RunnerAssumption DEF Books
<1>2. IsFiniteSet(Of(r))
  <2>1. Of(r) \subseteq input
    BY DEF Of
  <2> QED BY <1>1, <2>1, FS_Subset
<1>3. IsFiniteSet(Owing(r)) /\ \A c \in PerItem : IsFiniteSet(Tally(c, r))
  <2>1. Owing(r) \subseteq Of(r) /\ \A c \in PerItem : Tally(c, r) \subseteq Of(r)
    BY DEF Owing, Tally
  <2> QED BY <1>2, <2>1, FS_Subset
<1>4. IsFiniteSet(Retried(r))
  <2>1. IsFiniteSet(1 .. Attempts - 1)
    BY RunnerAssumption, FS_Interval
  <2>2. IsFiniteSet(Of(r) \X (1 .. Attempts - 1))
    BY <1>2, <2>1, FS_Product
  <2>3. Retried(r) \subseteq Of(r) \X (1 .. Attempts - 1)
    BY DEF Retried
  <2> QED BY <2>2, <2>3, FS_Subset
<1> QED BY <1>2, <1>3, <1>4

\* Such a step keeps the books, if it keeps what they say of that item.
LEMMA EnterBooks ==
    ASSUME Inv, Books, NEW i \in Items, NEW label \in PC, NEW x \in AnyResult,
           NEW g \in Values \cup {None}, NEW a, NEW who, NEW names \in SUBSET Counters,
           Enters(i, label, x, g, a, who, names), i \in input,
           EntryAt(i, label, x, a),
           x.kind # "error" => Accounts(i, label, x, g, a, who, names),
           \A r \in Runners, k \in Keys : call'[r][k].state = "hit" => call'[r][k].kind = "value"
    PROVE  Books'
<1> PICK R \in Runners : R = RunnerOf[i]
  BY RunnerAssumption
<1>0. a \in Nat /\ Types /\ attempt \in [Items -> Nat]
  BY RunnerAssumption DEF Books, Inv, EntryAt
<1>1. /\ pc'[i] = label /\ result'[i] = x /\ got'[i] = g /\ attempt'[i] = a
      /\ \A j \in Items \ {i} : /\ pc'[j] = pc[j] /\ got'[j] = got[j]
                                /\ result'[j] = result[j] /\ attempt'[j] = attempt[j]
                                /\ j \in who <=> j \in leads
      /\ leads' = who /\ input' = input
  BY <1>0 DEF Types, Enters
<1>2. attempt' \in [Items -> Nat]
  BY <1>0 DEF Enters
<1>3. /\ counts' \in [Runners -> [Counters -> Nat]]
      /\ \A c \in Counters : counts'[R][c] = counts[R][c] + One(c \in names)
      /\ \A r \in Runners \ {R} : counts'[r] = counts[r]
  BY <1>0 DEF Books, Enters, Count, One
<1>4. \A j \in Items : Entry(j)'
  <2>1. Entry(i)'
    BY <1>1 DEF Entry, EntryAt
  <2>2. \A j \in Items \ {i} : Entry(j)'
    BY <1>1 DEF Books, Entry, EntryAt
  <2> QED BY <2>1, <2>2
<1>5. \A r \in Runners : Of(r)' = Of(r) /\ Of(r) \subseteq Items
  BY <1>1, RunnerAssumption DEF Books, Of
<1>6. ASSUME NEW r \in Runners \ {R}, Clean(r)' PROVE Balanced(r)'
  <2>1. \A j \in Of(r) : j \in Items \ {i}
    BY <1>5 DEF Of
  <2>2. Clean(r)
    BY <1>1, <1>5, <1>6, <2>1 DEF Clean
  <2>3. \A c \in PerItem : Tally(c, r)' = Tally(c, r)
    <3>1. \A c \in PerItem : \A j \in Of(r) : Counted(c, j)' <=> Counted(c, j)
      BY <1>1, <2>1 DEF Counted, CountedAt
    <3> QED BY <1>5, <3>1 DEF Tally
  <2>4. Owing(r)' = Owing(r)
    BY <1>1, <1>5, <2>1 DEF Owing
  <2>5. Retried(r)' = Retried(r)
    BY <1>1, <1>5, <2>1 DEF Retried
  <2>6. counts'[r] = counts[r]
    BY <1>3
  <2>7. Balanced(r)
    BY <2>2 DEF Books
  <2> QED BY <2>3, <2>4, <2>5, <2>6, <2>7 DEF Balanced
<1>7. ASSUME Clean(R)' PROVE Balanced(R)'
  <2>0. i \in Of(R) /\ x.kind # "error" /\ Accounts(i, label, x, g, a, who, names)
    BY <1>1, <1>5, <1>7 DEF Clean, Of
  <2>1. Clean(R) /\ Balanced(R)
    <3>1. Clean(R)
      BY <1>1, <1>5, <1>7, <2>0 DEF Clean, Accounts
    <3> QED BY <3>1, <1>0 DEF Books
  <2>2. ASSUME NEW c \in PerItem PROVE (counts[R][c] = Cardinality(Tally(c, R)))'
    <3>1. \A j : j # i => (j \in Tally(c, R) <=> j \in Tally(c, R)')
      BY <1>1, <1>5 DEF Tally, Counted, CountedAt
    <3>2. (i \in Tally(c, R) <=> Counted(c, i))
          /\ (i \in Tally(c, R)' <=> CountedAt(c, i, label, x, g, a, who))
      BY <1>1, <1>5, <2>0 DEF Tally, Counted, CountedAt
    <3>3. IsFiniteSet(Tally(c, R))
      BY <1>0, FiniteTallies
    <3>4. /\ Cardinality(Tally(c, R)) \in Nat /\ Cardinality(Tally(c, R)') \in Nat
          /\ Cardinality(Tally(c, R)') + One(i \in Tally(c, R))
               = Cardinality(Tally(c, R)) + One(i \in Tally(c, R)')
      BY <3>1, <3>3, Swap
    <3>5. /\ c \in names => ~Counted(c, i)
          /\ CountedAt(c, i, label, x, g, a, who) <=> Counted(c, i) \/ c \in names
      BY <2>0 DEF Accounts
    <3>6. counts[R][c] = Cardinality(Tally(c, R)) /\ c \in Counters
      BY <2>1 DEF Balanced, PerItem, Counters
    <3>7. counts'[R][c] = counts[R][c] + One(c \in names)
      BY <1>3, <3>6
    <3> QED BY <3>2, <3>4, <3>5, <3>6, <3>7 DEF One
  <2>3. Cardinality(Retried(R)') = Cardinality(Retried(R)) + One("Retries" \in names)
    <3> DEFINE e == <<i, attempt[i]>>
    <3>0. attempt[i] \in 1 .. Attempts
      BY DEF Books, Entry, EntryAt
    <3>1. \A n \in 1 .. Attempts - 1 :
            <<i, n>> \in Retried(R)' <=>
               <<i, n>> \in Retried(R) \/ ("Retries" \in names /\ n = attempt[i])
      BY <1>1, <1>5, <2>0 DEF Retried, Accounts
    <3>2. \A j \in Of(R), n \in 1 .. Attempts - 1 :
            j # i => (<<j, n>> \in Retried(R)' <=> <<j, n>> \in Retried(R))
      BY <1>1, <1>5 DEF Retried
    <3>3. /\ Retried(R)' \subseteq Of(R) \X (1 .. Attempts - 1)
          /\ Retried(R) \subseteq Of(R) \X (1 .. Attempts - 1)
      BY <1>5 DEF Retried
    <3>4. "Retries" \in names => e \notin Retried(R) /\ e \in Retried(R)'
      <4>1. ASSUME "Retries" \in names PROVE attempt[i] \in 1 .. Attempts - 1 /\ e \notin Retried(R)
        BY <2>0, <3>0, <4>1, RunnerAssumption DEF Accounts, Retried
      <4> QED BY <3>1, <4>1
    <3>5. CASE "Retries" \in names
      <4>1. \A d : d # e => (d \in Retried(R) <=> d \in Retried(R)')
        BY <3>1, <3>2, <3>3
      <4>2. IsFiniteSet(Retried(R))
        BY <1>0, FiniteTallies
      <4> HIDE DEF e
      <4>3. /\ Cardinality(Retried(R)) \in Nat /\ Cardinality(Retried(R)') \in Nat
            /\ Cardinality(Retried(R)') + One(e \in Retried(R))
                 = Cardinality(Retried(R)) + One(e \in Retried(R)')
        BY <4>1, <4>2, Swap
      <4> QED BY <3>4, <3>5, <4>3 DEF One
    <3>6. CASE "Retries" \notin names
      <4>1. Retried(R)' = Retried(R)
        BY <3>1, <3>2, <3>3, <3>6
      <4>2. Cardinality(Retried(R)) \in Nat
        BY <1>0, FiniteTallies, FS_CardinalityType
      <4> QED BY <3>6, <4>1, <4>2 DEF One
    <3> QED BY <3>5, <3>6
  <2>4. /\ Cardinality(Owing(R)) \in Nat /\ Cardinality(Owing(R)') \in Nat
        /\ Cardinality(Owing(R)') + One(OwesAt(pc[i], attempt[i]))
             = Cardinality(Owing(R)) + One(OwesAt(label, a))
    <3>1. \A j : j # i => (j \in Owing(R) <=> j \in Owing(R)')
      BY <1>1, <1>5 DEF Owing, OwesAt
    <3>2. (i \in Owing(R) <=> OwesAt(pc[i], attempt[i])) /\ (i \in Owing(R)' <=> OwesAt(label, a))
      BY <1>1, <1>5, <2>0 DEF Owing
    <3>3. IsFiniteSet(Owing(R))
      BY <1>0, FiniteTallies
    <3>4. /\ Cardinality(Owing(R)) \in Nat /\ Cardinality(Owing(R)') \in Nat
          /\ Cardinality(Owing(R)') + One(i \in Owing(R))
               = Cardinality(Owing(R)) + One(i \in Owing(R)')
      BY <3>1, <3>3, Swap
    <3> QED BY <3>2, <3>4 DEF One
  <2>5. \A c \in Counters : counts[R][c] \in Nat /\ counts'[R][c] = counts[R][c] + One(c \in names)
    BY <1>0, <1>3 DEF Books
  <2>6. (counts[R]["Retries"] = Cardinality(Retried(R)))'
    BY <2>1, <2>3, <2>5 DEF Balanced, Counters
  <2>7. (counts[R]["WorkCalls"] + Cardinality(Owing(R))
           = counts[R]["StartedSequences"] + counts[R]["Retries"])'
    <3>1. One(OwesAt(label, a)) + One("WorkCalls" \in names)
            = One(OwesAt(pc[i], attempt[i])) + One("StartedSequences" \in names)
                + One("Retries" \in names)
      BY <2>0 DEF Accounts
    <3>2. {"WorkCalls", "StartedSequences", "Retries"} \subseteq Counters
      BY DEF Counters
    <3>3. counts[R]["WorkCalls"] + Cardinality(Owing(R))
            = counts[R]["StartedSequences"] + counts[R]["Retries"]
      BY <2>1 DEF Balanced
    <3> QED BY <2>4, <2>5, <3>1, <3>2, <3>3 DEF One
  <2> QED BY <2>2, <2>6, <2>7 DEF Balanced
<1> QED BY <1>1, <1>2, <1>3, <1>4, <1>6, <1>7 DEF Books

\* The cache state of a Result and of an Error.
LEMMA StateFacts ==
    /\ NoResult.state = "" /\ NoResult.kind = "none" /\ Open.state = ""
    /\ \A c \in Causes : Error(c).state = c
    /\ \A k \in Outcomes, v \in Values \cup {None}, s \in States : Result(k, v, s).state = s
BY DEF NoResult, Open, Error, Result

\* What the books say of one item.
LEMMA EntryFacts ==
    ASSUME Inv, Books, NEW i \in Items
    PROVE  /\ EntryAt(i, pc[i], result[i], attempt[i])
           /\ attempt[i] \in 1 .. Attempts /\ Attempts \in Nat
           /\ attempt = [attempt EXCEPT ![i] = attempt[i]]
           /\ UNCHANGED counts => Count(i, {})
           /\ UNCHANGED call =>
                \A r \in Runners, k \in Keys :
                  call'[r][k].state = "hit" => call'[r][k].kind = "value"
<1>1. EntryAt(i, pc[i], result[i], attempt[i]) /\ attempt \in [Items -> Nat]
  BY DEF Books, Entry
<1>2. UNCHANGED counts => Count(i, {})
  BY RunnerAssumption DEF Books, Count
<1>3. UNCHANGED call =>
        \A r \in Runners, k \in Keys : call'[r][k].state = "hit" => call'[r][k].kind = "value"
  BY DEF Books
<1> QED BY <1>1, <1>2, <1>3, RunnerAssumption DEF EntryAt

\* After an error nothing is claimed of the runner's report.
LEMMA ErrorBooks ==
    ASSUME Inv, Books, NEW i \in Items, NEW c \in Causes, NEW g \in Values \cup {None},
           NEW names \in SUBSET Counters,
           pc[i] # "idle", Resolve(i, Error(c)), got' = [got EXCEPT ![i] = g], Count(i, names),
           UNCHANGED <<input, call, leads, attempt>>
    PROVE  Books'
<1> DEFINE label == IF i \in leads THEN "publish" ELSE "return"
           x == Error(c)
<1>1. Enters(i, label, x, g, attempt[i], leads, names)
  BY EntryFacts DEF Enters, Resolve, Goto
<1>2. x \in AnyResult /\ x.kind = "error" /\ x.state # "hit"
  BY ResultFacts, StateFacts DEF Causes, FaultKinds
<1>3. label \in {"publish", "return"} /\ label \in PC
  BY DEF PC
<1> HIDE DEF x, label
<1>4. EntryAt(i, label, x, attempt[i]) /\ i \in input
  BY <1>2, <1>3, EntryFacts DEF EntryAt, Having
<1>5. \A r \in Runners, k \in Keys : call'[r][k].state = "hit" => call'[r][k].kind = "value"
  BY EntryFacts
<1> QED BY <1>1, <1>2, <1>3, <1>4, <1>5, EnterBooks

\* A step that leaves the calls alone and does not end in an error.
LEMMA PlainBooks ==
    ASSUME Inv, Books, NEW i \in Items, NEW label \in PC, NEW x \in AnyResult,
           NEW g \in Values \cup {None}, NEW a, NEW names \in SUBSET Counters,
           pc' = [pc EXCEPT ![i] = label], result' = [result EXCEPT ![i] = x],
           got' = [got EXCEPT ![i] = g], attempt' = [attempt EXCEPT ![i] = a],
           Count(i, names), UNCHANGED <<input, call, leads>>, i \in input,
           EntryAt(i, label, x, a), x.kind # "error" => Accounts(i, label, x, g, a, leads, names)
    PROVE  Books'
<1>1. Enters(i, label, x, g, a, leads, names)
  BY DEF Enters
<1>2. \A r \in Runners, k \in Keys : call'[r][k].state = "hit" => call'[r][k].kind = "value"
  BY EntryFacts
<1> QED BY <1>1, <1>2, EnterBooks

\* A follower counts the outcome it replicates.
LEMMA FollowBooks ==
    ASSUME Inv, Books, NEW i \in Items, FollowCanceled(i) \/ FollowCall(i)
    PROVE  Books'
<1>1. CASE FollowCanceled(i)
  <2>1. /\ pc[i] = "follow" /\ Resolve(i, Error("ctx")) /\ Count(i, {})
        /\ got' = [got EXCEPT ![i] = got[i]] /\ UNCHANGED <<input, call, leads, attempt>>
    BY <1>1, ItemFacts, EntryFacts DEF FollowCanceled
  <2> QED BY <2>1, ErrorBooks, ItemFacts DEF Causes
<1>2. CASE FollowCall(i)
  <2> DEFINE x == Call(i)
             label == IF x.kind = "error" THEN "return" ELSE "observe"
             names == IF x.kind = "error" THEN {} ELSE FollowCounters(x)
  <2>1. /\ pc[i] = "follow" /\ x # Open /\ pc' = [pc EXCEPT ![i] = label]
        /\ result' = [result EXCEPT ![i] = x] /\ Count(i, names)
        /\ UNCHANGED <<input, call, leads>>
        /\ got' = [got EXCEPT ![i] = got[i]]
        /\ attempt' = [attempt EXCEPT ![i] = attempt[i]]
    BY <1>2, ItemFacts, EntryFacts DEF FollowCall, Goto, Call
  <2>2. /\ x \in AnyResult /\ x.kind \in Outcomes /\ IsCached(i) /\ i \notin leads
        /\ (x.state = "hit" => x.kind = "value") /\ got[i] = None
    <3>1. /\ x \in AnyResult /\ CallOK(RunnerOf[i], KeyOf[i])
          /\ RunnerOf[i] \in Runners /\ KeyOf[i] \in Keys
      BY ItemFacts
    <3>2. IsCached(i) /\ i \notin leads /\ got[i] = None /\ x # NoResult
      BY <2>1, ItemFacts DEF ItemAt, ControlAt, Working, Having
    <3> QED BY <2>1, <3>1, <3>2 DEF CallOK, Call, Books
  <2>3. label \in PC /\ names \in SUBSET Counters /\ label = IF x.kind = "error" THEN "return" ELSE "observe"
    BY DEF PC, FollowCounters, Counters
  <2>4. names = IF x.kind = "error" THEN {} ELSE FollowCounters(x)
    OBVIOUS
  <2> HIDE DEF x, label, names
  <2>5. EntryAt(i, label, x, attempt[i]) /\ i \in input
    BY <2>1, <2>2, <2>3, EntryFacts DEF EntryAt, Having
  <2>6. ASSUME x.kind # "error" PROVE Accounts(i, label, x, got[i], attempt[i], leads, names)
    <3>1. attempt[i] = 1 /\ result[i] = NoResult
      BY <2>1, EntryFacts DEF EntryAt, Having
    <3>2. ASSUME NEW c \in PerItem
          PROVE  /\ c \in names => ~Counted(c, i)
                 /\ CountedAt(c, i, label, x, got[i], attempt[i], leads) <=>
                      Counted(c, i) \/ c \in names
      BY <2>1, <2>2, <2>3, <2>4, <2>6, <3>1, StateFacts
      DEF PerItem, CountedAt, Counted, FollowCounters, Working, Having, Outcomes
    <3>3. /\ "Retries" \notin names /\ "WorkCalls" \notin names
          /\ "StartedSequences" \notin names
      BY <2>4, <2>6 DEF FollowCounters
    <3>4. result[i].kind # "error" /\ label = "observe"
      BY <2>3, <2>6, <3>1, StateFacts
    <3>5. ~OwesAt(label, attempt[i]) /\ ~OwesAt(pc[i], attempt[i])
      BY <2>1, <3>1, <3>4 DEF OwesAt
    <3>6. \A n \in 1 .. Attempts - 1 :
            RetriedAt(n, label, attempt[i]) <=> RetriedAt(n, pc[i], attempt[i])
      BY <2>1, <3>4 DEF RetriedAt
    <3> QED BY <3>2, <3>3, <3>4, <3>5, <3>6 DEF Accounts, One
  <2> QED BY <2>1, <2>2, <2>3, <2>5, <2>6, ItemFacts, PlainBooks
<1> QED BY <1>1, <1>2

\* A step that is no attempt and no retry has only the counters of its item to keep.
LEMMA QuietAccounts ==
    ASSUME NEW i, NEW label, NEW x, NEW g, NEW a, NEW who, NEW names,
           result[i].kind # "error",
           \A c \in PerItem :
             /\ c \in names => ~Counted(c, i)
             /\ CountedAt(c, i, label, x, g, a, who) <=> Counted(c, i) \/ c \in names,
           "WorkCalls" \notin names, "StartedSequences" \notin names, "Retries" \notin names,
           OwesAt(label, a) <=> OwesAt(pc[i], attempt[i]),
           \A n \in 1 .. Attempts - 1 : RetriedAt(n, label, a) <=> RetriedAt(n, pc[i], attempt[i])
    PROVE  Accounts(i, label, x, g, a, who, names)
BY DEF Accounts, One

\* A leader counts a hit or a miss.
LEMMA LoadBooks ==
    ASSUME Inv, Books, NEW i \in Items, Load(i)
    PROVE  Books'
<1> DEFINE hit == Result("value", store[KeyOf[i]], "hit")
<1>0. /\ pc[i] = "load" /\ UNCHANGED <<input, call, leads, attempt>>
      /\ got' = [got EXCEPT ![i] = got[i]]
      /\ attempt' = [attempt EXCEPT ![i] = attempt[i]]
  BY ItemFacts, EntryFacts DEF Load
<1>1. /\ attempt[i] = 1 /\ result[i] = NoResult /\ i \in input
      /\ IsCached(i) /\ i \in leads /\ got[i] = None
      /\ got[i] \in Values \cup {None} /\ result[i] \in AnyResult
      /\ NoResult.state = "" /\ NoResult.kind = "none"
  BY <1>0, ItemFacts, EntryFacts, StateFacts DEF ItemAt, ControlAt, EntryAt, Working, Having
<1>2. CASE Resolve(i, Error("load")) /\ UNCHANGED counts
  <2>1. Count(i, {})
    BY <1>2, EntryFacts
  <2> QED BY <1>0, <1>1, <1>2, <2>1, ErrorBooks DEF Causes, FaultKinds
<1>3. CASE result' = [result EXCEPT ![i] = hit] /\ Goto(i, "observe") /\ Count(i, {"Hits"})
  <2>1. hit \in AnyResult /\ hit.kind = "value" /\ hit.state = "hit"
    <3>1. store[KeyOf[i]] \in Values \cup {None} /\ "value" \in Outcomes /\ "hit" \in States
      BY ItemFacts DEF Outcomes, States
    <3>2. hit.state = "hit"
      BY DEF Result
    <3> QED BY ONLY <3>1, <3>2, ResultFacts
  <2> HIDE DEF hit
  <2>2. EntryAt(i, "observe", hit, attempt[i])
    BY <1>1, <2>1, EntryFacts DEF EntryAt, Having
  <2>3. \A c \in PerItem :
          /\ c \in {"Hits"} => ~Counted(c, i)
          /\ CountedAt(c, i, "observe", hit, got[i], attempt[i], leads) <=>
               Counted(c, i) \/ c \in {"Hits"}
    BY <1>0, <1>1, <2>1 DEF PerItem, Counted, CountedAt, Working, Having
  <2>4. Accounts(i, "observe", hit, got[i], attempt[i], leads, {"Hits"})
    <3>1. OwesAt("observe", attempt[i]) <=> OwesAt(pc[i], attempt[i])
      BY <1>0, <1>1 DEF OwesAt
    <3>2. \A n \in 1 .. Attempts - 1 :
            RetriedAt(n, "observe", attempt[i]) <=> RetriedAt(n, pc[i], attempt[i])
      BY <1>0 DEF RetriedAt
    <3> QED BY <1>1, <2>3, <3>1, <3>2, QuietAccounts
  <2>5. "observe" \in PC /\ {"Hits"} \in SUBSET Counters
    BY DEF PC, Counters
  <2> QED BY <1>0, <1>1, <1>3, <2>1, <2>2, <2>4, <2>5, PlainBooks DEF Goto
<1>4. CASE UNCHANGED result /\ Goto(i, "admit") /\ Count(i, {"Misses"})
  <2>1. result' = [result EXCEPT ![i] = result[i]]
    BY <1>4, ItemFacts
  <2>2. EntryAt(i, "admit", result[i], attempt[i])
    BY <1>1, EntryFacts DEF EntryAt, Having
  <2>3. \A c \in PerItem :
          /\ c \in {"Misses"} => ~Counted(c, i)
          /\ CountedAt(c, i, "admit", result[i], got[i], attempt[i], leads) <=>
               Counted(c, i) \/ c \in {"Misses"}
    BY <1>0, <1>1 DEF PerItem, Counted, CountedAt, Working, Having
  <2>4. Accounts(i, "admit", result[i], got[i], attempt[i], leads, {"Misses"})
    <3>1. OwesAt("admit", attempt[i]) <=> OwesAt(pc[i], attempt[i])
      <4>1. pc[i] = "load" /\ attempt[i] = 1
        BY <1>0, <1>1
      <4> QED BY <4>1 DEF OwesAt
    <3>2. \A n \in 1 .. Attempts - 1 :
            RetriedAt(n, "admit", attempt[i]) <=> RetriedAt(n, pc[i], attempt[i])
      BY <1>0 DEF RetriedAt
    <3> QED BY <1>1, <2>3, <3>1, <3>2, QuietAccounts
  <2>5. "admit" \in PC /\ {"Misses"} \in SUBSET Counters
    BY DEF PC, Counters
  <2> QED BY <1>0, <1>1, <1>4, <2>1, <2>2, <2>4, <2>5, PlainBooks DEF Goto
<1> QED BY <1>2, <1>3, <1>4 DEF Load

\* What the books and the invariant say of an item in the loop of work.
LEMMA LoopFacts ==
    ASSUME Inv, Books, NEW i \in Items, pc[i] \in {"admit", "do", "backoff", "store"}
    PROVE  /\ result[i] = NoResult /\ i \in input
           /\ IsCached(i) => i \in leads
           /\ i \in leads => IsCached(i)
           /\ pc[i] # "store" => got[i] = None
           /\ pc[i] = "store" => IsCached(i) /\ got[i] # None
           /\ pc[i] = "backoff" => attempt[i] < Attempts
           /\ attempt[i] \in 1 .. Attempts /\ Attempts \in Nat
           /\ got[i] \in Values \cup {None} /\ result[i] \in AnyResult
           /\ result[i].state = "" /\ result[i].kind = "none"
BY ItemFacts, EntryFacts, StateFacts DEF ItemAt, ControlAt, EntryAt, Working, Having

\* A first attempt starts a sequence, every other one follows a retry.
LEMMA AdmitBooks ==
    ASSUME Inv, Books, NEW i \in Items, Admit(i)
    PROVE  Books'
<1>0. /\ pc[i] = "admit" /\ UNCHANGED <<input, call, leads, attempt>>
      /\ got' = [got EXCEPT ![i] = got[i]]
      /\ attempt' = [attempt EXCEPT ![i] = attempt[i]]
  BY ItemFacts, EntryFacts DEF Admit
<1>1. CASE Resolve(i, Error("admit")) /\ UNCHANGED counts
  <2>1. Count(i, {})
    BY <1>1, EntryFacts
  <2> QED BY <1>0, <1>1, <2>1, ErrorBooks, LoopFacts DEF Causes
<1>2. ASSUME NEW names \in {{}, {"StartedSequences"}}, names = {} <=> attempt[i] > 1,
             Goto(i, "do"), UNCHANGED result, Count(i, names)
      PROVE  Books'
  <2>0. /\ result[i] \in AnyResult /\ result[i].state = "" /\ result[i].kind = "none"
        /\ i \in input /\ (IsCached(i) <=> i \in leads) /\ got[i] = None
        /\ got[i] \in Values \cup {None} /\ attempt[i] \in 1 .. Attempts /\ Attempts \in Nat
    BY <1>0, LoopFacts
  <2>1. result' = [result EXCEPT ![i] = result[i]]
    BY <1>2, ItemFacts
  <2>2. EntryAt(i, "do", result[i], attempt[i])
    BY <1>0, LoopFacts, EntryFacts DEF EntryAt, Having
  <2>3. \A c \in PerItem :
          /\ c \in names => ~Counted(c, i)
          /\ CountedAt(c, i, "do", result[i], got[i], attempt[i], leads) <=>
               Counted(c, i) \/ c \in names
    BY <1>0, <1>2, <2>0 DEF PerItem, Counted, CountedAt, Working, Having
  <2>4. One(OwesAt("do", attempt[i])) + One("WorkCalls" \in names)
          = One(OwesAt(pc[i], attempt[i])) + One("StartedSequences" \in names)
              + One("Retries" \in names)
    <3>1. OwesAt("do", attempt[i]) /\ (OwesAt(pc[i], attempt[i]) <=> attempt[i] > 1)
      BY <1>0 DEF OwesAt
    <3>2. "WorkCalls" \notin names /\ "Retries" \notin names
          /\ ("StartedSequences" \in names <=> ~(attempt[i] > 1))
      BY <1>2
    <3> QED BY <3>1, <3>2 DEF One
  <2>5. Accounts(i, "do", result[i], got[i], attempt[i], leads, names)
    BY <1>0, <1>2, <2>0, <2>3, <2>4 DEF Accounts, RetriedAt
  <2>6. "do" \in PC /\ names \in SUBSET Counters
    BY DEF PC, Counters
  <2> QED BY <1>0, <1>2, <2>0, <2>1, <2>2, <2>5, <2>6, PlainBooks DEF Goto
<1>3. attempt[i] = 1 \/ attempt[i] > 1
  <2>1. attempt[i] \in 1 .. Attempts /\ Attempts \in Nat
    BY <1>0, LoopFacts
  <2> QED BY <2>1
<1> QED BY <1>1, <1>2, <1>3 DEF Admit

\* A retry is counted with the call that it follows.
LEMMA RetryBooks ==
    ASSUME Inv, Books, NEW i \in Items, DoRetries(i)
    PROVE  Books'
<1> DEFINE names == {"WorkCalls", "Retries"}
<1>0. /\ pc[i] = "do" /\ UNCHANGED <<input, call, leads, attempt>>
      /\ got' = [got EXCEPT ![i] = got[i]] /\ Count(i, names) /\ attempt[i] < Attempts
      /\ attempt' = [attempt EXCEPT ![i] = attempt[i]]
  BY ItemFacts, EntryFacts DEF DoRetries
<1>3. "backoff" \in PC /\ names \in SUBSET Counters
  BY DEF PC, Counters
<1>1. CASE Resolve(i, Error("ledger"))
  <2> HIDE DEF names
  <2> QED BY <1>0, <1>1, <1>3, ErrorBooks, LoopFacts DEF Causes, FaultKinds
<1>2. CASE Goto(i, "backoff") /\ UNCHANGED result
  <2>1. result' = [result EXCEPT ![i] = result[i]]
    BY <1>2, ItemFacts
  <2>2. EntryAt(i, "backoff", result[i], attempt[i])
    BY <1>0, LoopFacts, EntryFacts DEF EntryAt, Having
  <2>3. \A c \in PerItem :
          /\ c \in names => ~Counted(c, i)
          /\ CountedAt(c, i, "backoff", result[i], got[i], attempt[i], leads) <=>
               Counted(c, i) \/ c \in names
    BY <1>0, LoopFacts DEF PerItem, Counted, CountedAt, Working, Having
  <2>4. Accounts(i, "backoff", result[i], got[i], attempt[i], leads, names)
    <3>1. /\ One(OwesAt("backoff", attempt[i])) = 1 /\ One(OwesAt(pc[i], attempt[i])) = 1
          /\ One("WorkCalls" \in names) = 1 /\ One("Retries" \in names) = 1
          /\ One("StartedSequences" \in names) = 0
      BY <1>0 DEF OwesAt, One
    <3>2. ~RetriedAt(attempt[i], pc[i], attempt[i])
      <4>1. attempt[i] \in 1 .. Attempts /\ Attempts \in Nat /\ pc[i] = "do"
        BY <1>0, LoopFacts
      <4> QED BY <4>1 DEF RetriedAt
    <3>3. \A n \in 1 .. Attempts - 1 :
            RetriedAt(n, "backoff", attempt[i]) <=>
              RetriedAt(n, pc[i], attempt[i]) \/ n = attempt[i]
      BY <1>0 DEF RetriedAt
    <3>4. result[i].kind # "error"
      BY <1>0, LoopFacts
    <3> QED BY <1>0, <2>3, <3>1, <3>2, <3>3, <3>4 DEF Accounts
  <2> HIDE DEF names
  <2> QED BY <1>0, <1>2, <1>3, <2>1, <2>2, <2>4, LoopFacts, PlainBooks DEF Goto
<1> QED BY <1>1, <1>2 DEF DoRetries

\* The next attempt begins.
LEMMA BackOffBooks ==
    ASSUME Inv, Books, NEW i \in Items, BackOff(i)
    PROVE  Books'
<1>0. /\ pc[i] = "backoff" /\ UNCHANGED <<input, call, leads>>
      /\ got' = [got EXCEPT ![i] = got[i]] /\ Count(i, {})
  BY ItemFacts, EntryFacts DEF BackOff
<1>1. CASE Resolve(i, Error("ctx")) /\ UNCHANGED attempt
  BY <1>0, <1>1, ErrorBooks, LoopFacts DEF Causes
<1>2. CASE /\ attempt' = [attempt EXCEPT ![i] = @ + 1] /\ Goto(i, "admit")
           /\ UNCHANGED result
  <2> DEFINE a == attempt[i] + 1
  <2>1. result' = [result EXCEPT ![i] = result[i]] /\ attempt' = [attempt EXCEPT ![i] = a]
    BY <1>2, ItemFacts
  <2>0. /\ result[i] \in AnyResult /\ result[i].state = "" /\ result[i].kind = "none"
        /\ result[i] = NoResult /\ i \in input
        /\ got[i] = None
    BY <1>0, LoopFacts
  <2>9. /\ pc[i] = "backoff" /\ attempt[i] < Attempts
        /\ attempt[i] \in 1 .. Attempts /\ Attempts \in Nat
    BY <1>0, LoopFacts
  <2>10. a \in 1 .. Attempts /\ a > 1
    BY <2>9
  <2>2. EntryAt(i, "admit", result[i], a)
    <3> HIDE DEF a
    <3> QED BY <2>0, <2>10 DEF EntryAt, Having
  <2>3. ASSUME NEW c \in PerItem
        PROVE  CountedAt(c, i, "admit", result[i], got[i], a, leads) <=> Counted(c, i)
    <3> HIDE DEF a
    <3> QED BY <1>0, <2>0, <2>10 DEF PerItem, Counted, CountedAt, Working, Having
  <2>4. Accounts(i, "admit", result[i], got[i], a, leads, {})
    <3>1. OwesAt("admit", a) /\ OwesAt(pc[i], attempt[i])
      BY <2>9 DEF OwesAt
    <3>2. \A n \in 1 .. Attempts - 1 : RetriedAt(n, "admit", a) <=> RetriedAt(n, pc[i], attempt[i])
      BY <2>9 DEF RetriedAt
    <3> HIDE DEF a
    <3> QED BY <2>0, <2>3, <3>1, <3>2, QuietAccounts
  <2>5. "admit" \in PC
    BY DEF PC
  <2> HIDE DEF a
  <2> QED BY <1>0, <1>2, <2>1, <2>2, <2>4, <2>5, LoopFacts, PlainBooks DEF Goto
<1> QED BY <1>1, <1>2 DEF BackOff

\* The last call of a sequence: the item has a result, or its value to store.
LEMMA LastCall ==
    ASSUME Inv, Books, NEW i \in Items, pc[i] = "do", NEW label \in {"store", "observe"},
           NEW x \in AnyResult, NEW g \in Values \cup {None},
           NEW names \in {{"WorkCalls"}, {"WorkCalls", "Skipped"}, {"WorkCalls", "Quarantined"}},
           pc' = [pc EXCEPT ![i] = label], result' = [result EXCEPT ![i] = x],
           got' = [got EXCEPT ![i] = g], Count(i, names),
           UNCHANGED <<input, call, leads, attempt>>,
           label = "store" => x = NoResult /\ IsCached(i),
           label = "observe" => x.kind \in Outcomes \ {"error"},
           x.state = "",
           x.kind = "skipped" <=> "Skipped" \in names,
           x.kind = "quarantined" <=> "Quarantined" \in names,
           g # None /\ IsCached(i) => label = "store"
    PROVE  Books'
<1>0. /\ result[i].state = "" /\ result[i].kind = "none" /\ i \in input
      /\ IsCached(i) <=> i \in leads
      /\ got[i] = None /\ attempt[i] \in 1 .. Attempts
      /\ attempt' = [attempt EXCEPT ![i] = attempt[i]]
  BY LoopFacts, EntryFacts
<1>1. x.kind # "error" /\ NoResult.kind = "none"
  BY StateFacts
<1>2. EntryAt(i, label, x, attempt[i])
  BY <1>0, <1>1 DEF EntryAt, Having
<1>3. ASSUME NEW c \in PerItem
      PROVE  /\ c \in names => ~Counted(c, i)
             /\ CountedAt(c, i, label, x, g, attempt[i], leads) <=> Counted(c, i) \/ c \in names
  BY <1>0, <1>1 DEF PerItem, Counted, CountedAt, Working, Having
<1>4. /\ One(OwesAt(label, attempt[i])) = 0 /\ One(OwesAt(pc[i], attempt[i])) = 1
      /\ One("WorkCalls" \in names) = 1 /\ One("Retries" \in names) = 0
      /\ One("StartedSequences" \in names) = 0 /\ "Retries" \notin names
  BY DEF OwesAt, One
<1>5. \A n \in 1 .. Attempts - 1 :
        RetriedAt(n, label, attempt[i]) <=> RetriedAt(n, pc[i], attempt[i])
  BY DEF RetriedAt
<1>6. Accounts(i, label, x, g, attempt[i], leads, names)
  <2>1. One(OwesAt(label, attempt[i])) + One("WorkCalls" \in names)
          = One(OwesAt(pc[i], attempt[i])) + One("StartedSequences" \in names)
              + One("Retries" \in names)
    BY ONLY <1>4
  <2>2. result[i].kind # "error" /\ "Retries" \notin names
    BY <1>0, <1>4
  <2> QED BY ONLY <1>3, <1>5, <2>1, <2>2 DEF Accounts
<1>7. label \in PC /\ names \in SUBSET Counters
  BY DEF PC, Counters
<1> QED BY <1>0, <1>2, <1>6, <1>7, PlainBooks

LEMMA DoBooks ==
    ASSUME Inv, Books, NEW i \in Items,
           DoSucceeds(i) \/ DoOverflows(i) \/ DoCanceled(i) \/ DoFails(i)
    PROVE  Books'
<1> DEFINE paid == <<run, i>>
<1>0. pc[i] = "do" /\ UNCHANGED <<input, call, leads, attempt>>
  BY DEF DoSucceeds, DoOverflows, DoCanceled, DoFails
<1>1. {"WorkCalls"} \in SUBSET Counters
  BY DEF Counters
<1>2. ASSUME NEW c \in Causes, Resolve(i, Error(c)), NEW g \in Values \cup {None},
             got' = [got EXCEPT ![i] = g], Count(i, {"WorkCalls"})
      PROVE  Books'
  BY <1>0, <1>1, <1>2, ErrorBooks
<1>3. /\ paid \in Values /\ got[i] \in Values \cup {None} /\ result[i] = NoResult
      /\ result[i] \in AnyResult /\ result[i].state = "" /\ result[i].kind = "none"
      /\ UNCHANGED got => got' = [got EXCEPT ![i] = got[i]]
      /\ UNCHANGED result => result' = [result EXCEPT ![i] = result[i]]
      /\ got[i] = None
  BY <1>0, ItemFacts, LoopFacts
<1>4. CASE DoSucceeds(i)
  <2>1. got' = [got EXCEPT ![i] = paid] /\ Count(i, {"WorkCalls"})
    BY <1>4 DEF DoSucceeds
  <2>2. CASE IsCached(i)
    <3>1. pc' = [pc EXCEPT ![i] = "store"] /\ result' = [result EXCEPT ![i] = result[i]]
      BY <1>3, <1>4, <2>2 DEF DoSucceeds, Goto
    <3> HIDE DEF paid
    <3> QED BY <1>0, <1>3, <2>1, <2>2, <3>1, LastCall
  <2>3. CASE ~IsCached(i)
    <3> DEFINE x == Result("value", paid, "")
    <3>1. pc' = [pc EXCEPT ![i] = "observe"] /\ result' = [result EXCEPT ![i] = x]
      BY <1>4, <2>3 DEF DoSucceeds, Goto
    <3>2. x \in AnyResult /\ x.kind = "value" /\ x.state = ""
      <4>1. "value" \in Outcomes /\ "" \in States /\ paid \in Values \cup {None}
        BY <1>3 DEF Outcomes, States
      <4>2. x.state = ""
        BY DEF Result
      <4> HIDE DEF paid
      <4> QED BY ONLY <4>1, <4>2, ResultFacts
    <3>3. "value" \in Outcomes \ {"error"}
      BY DEF Outcomes
    <3> HIDE DEF x, paid
    <3> QED BY <1>0, <1>3, <2>1, <2>3, <3>1, <3>2, <3>3, LastCall
  <2> QED BY <2>2, <2>3
<1>5. CASE DoOverflows(i)
  <2>1. \E g \in Values \cup {None} : got' = [got EXCEPT ![i] = g]
    BY <1>3, <1>5 DEF DoOverflows
  <2>2. Resolve(i, Error("meter")) /\ Count(i, {"WorkCalls"})
    BY <1>5 DEF DoOverflows
  <2> QED BY <1>2, <2>1, <2>2 DEF Causes, FaultKinds
<1>6. CASE DoCanceled(i)
  <2>1. Resolve(i, Error("ctx")) /\ Count(i, {"WorkCalls"}) /\ UNCHANGED got
    BY <1>6 DEF DoCanceled
  <2> QED BY <1>2, <1>3, <2>1 DEF Causes
<1>7. CASE DoFails(i)
  <2>1. PICK class \in {"transient", "data", "fatal"} : Fail(i, class)
    BY <1>7 DEF DoFails
  <2>2. got' = [got EXCEPT ![i] = got[i]]
    BY <1>3, <1>7 DEF DoFails
  <2>3. CASE Resolve(i, Error(class)) /\ Count(i, {"WorkCalls"})
    <3>1. class \in Causes
      BY DEF Causes, FaultKinds
    <3> QED BY <1>2, <1>3, <2>2, <2>3, <3>1
  <2>4. ASSUME NEW kind \in {"skipped", "quarantined"}, NEW names,
               names = {"WorkCalls", IF kind = "skipped" THEN "Skipped" ELSE "Quarantined"},
               result' = [result EXCEPT ![i] = Result(kind, None, "")],
               Goto(i, "observe"), Count(i, names)
        PROVE  Books'
    <3> DEFINE x == Result(kind, None, "")
    <3>1. pc' = [pc EXCEPT ![i] = "observe"] /\ result' = [result EXCEPT ![i] = x]
      BY <2>4 DEF Goto
    <3>2. x \in AnyResult /\ x.kind = kind /\ x.state = ""
      <4>1. kind \in Outcomes /\ "" \in States /\ None \in Values \cup {None}
        BY DEF Outcomes, States
      <4>2. x.state = ""
        BY DEF Result
      <4> QED BY ONLY <4>1, <4>2, ResultFacts
    <3>3. kind \in Outcomes \ {"error"}
      BY DEF Outcomes
    <3> HIDE DEF x
    <3>4. /\ names \in {{"WorkCalls"}, {"WorkCalls", "Skipped"}, {"WorkCalls", "Quarantined"}}
          /\ x.kind = "skipped" <=> "Skipped" \in names
          /\ x.kind = "quarantined" <=> "Quarantined" \in names
      BY <2>4, <3>2
    <3> QED BY <1>0, <1>3, <2>2, <2>4, <3>1, <3>2, <3>3, <3>4, LastCall
  <2>5. \/ Resolve(i, Error(class)) /\ Count(i, {"WorkCalls"})
        \/ /\ result' = [result EXCEPT ![i] = Result("skipped", None, "")]
           /\ Goto(i, "observe") /\ Count(i, {"WorkCalls", "Skipped"})
        \/ /\ result' = [result EXCEPT ![i] = Result("quarantined", None, "")]
           /\ Goto(i, "observe") /\ Count(i, {"WorkCalls", "Quarantined"})
    BY <2>1 DEF Fail
  <2> QED BY <2>3, <2>4, <2>5
<1> QED BY <1>4, <1>5, <1>6, <1>7

\* A stored value is counted when it is in the Store.
LEMMA CommitBooks ==
    ASSUME Inv, Books, NEW i \in Items, Commit(i)
    PROVE  Books'
<1> DEFINE x == Result("value", got[i], "stored")
<1>0. /\ pc[i] = "store" /\ UNCHANGED <<input, call, leads, attempt>>
      /\ got' = [got EXCEPT ![i] = got[i]]
      /\ attempt' = [attempt EXCEPT ![i] = attempt[i]]
  BY ItemFacts, EntryFacts DEF Commit
<1>1. /\ result[i].state = "" /\ result[i].kind = "none" /\ i \in input
      /\ IsCached(i) /\ i \in leads /\ got[i] # None /\ got[i] \in Values \cup {None}
      /\ attempt[i] \in 1 .. Attempts
  BY <1>0, LoopFacts
<1>2. CASE Resolve(i, Error("store")) /\ UNCHANGED counts
  <2>1. Count(i, {})
    BY <1>2, EntryFacts
  <2> QED BY <1>0, <1>1, <1>2, <2>1, ErrorBooks DEF Causes, FaultKinds
<1>3. CASE result' = [result EXCEPT ![i] = x] /\ Goto(i, "observe") /\ Count(i, {"Stored"})
  <2>1. x \in AnyResult /\ x.kind = "value" /\ x.state = "stored"
    <3>1. got[i] \in Values \cup {None} /\ "value" \in Outcomes /\ "stored" \in States
      BY <1>1 DEF Outcomes, States
    <3>2. x.state = "stored"
      BY DEF Result
    <3> QED BY ONLY <3>1, <3>2, ResultFacts
  <2> HIDE DEF x
  <2>2. EntryAt(i, "observe", x, attempt[i])
    BY <1>1, <2>1 DEF EntryAt, Having
  <2>3. ASSUME NEW c \in PerItem
        PROVE  /\ c \in {"Stored"} => ~Counted(c, i)
               /\ CountedAt(c, i, "observe", x, got[i], attempt[i], leads) <=>
                    Counted(c, i) \/ c \in {"Stored"}
    BY <1>0, <1>1, <2>1 DEF PerItem, Counted, CountedAt, Working, Having
  <2>4. Accounts(i, "observe", x, got[i], attempt[i], leads, {"Stored"})
    <3>1. ~OwesAt("observe", attempt[i]) /\ ~OwesAt(pc[i], attempt[i])
      BY <1>0 DEF OwesAt
    <3>2. \A n \in 1 .. Attempts - 1 :
            RetriedAt(n, "observe", attempt[i]) <=> RetriedAt(n, pc[i], attempt[i])
      BY <1>0 DEF RetriedAt
    <3> QED BY <1>1, <2>3, <3>1, <3>2, QuietAccounts
  <2>5. "observe" \in PC /\ {"Stored"} \in SUBSET Counters
    BY DEF PC, Counters
  <2> QED BY <1>0, <1>1, <1>3, <2>1, <2>2, <2>4, <2>5, PlainBooks DEF Goto
<1> QED BY <1>2, <1>3 DEF Commit

\* From its result on an item is not counted again.
LEMMA ResolvedBooks ==
    ASSUME Inv, Books, NEW i \in Items, Observe(i) \/ Return(i) \/ Publish(i)
    PROVE  Books'
<1>0. /\ pc[i] \in {"observe", "publish", "return"} /\ UNCHANGED <<input, leads, attempt>>
      /\ got' = [got EXCEPT ![i] = got[i]] /\ Count(i, {})
      /\ attempt' = [attempt EXCEPT ![i] = attempt[i]]
  BY ItemFacts, EntryFacts DEF Observe, Return, Publish
<1>1. /\ result[i] \in AnyResult /\ got[i] \in Values \cup {None} /\ i \in input
      /\ UNCHANGED result => result' = [result EXCEPT ![i] = result[i]]
      /\ EntryAt(i, pc[i], result[i], attempt[i])
  BY <1>0, ItemFacts, EntryFacts DEF EntryAt
<1>2. ASSUME NEW label \in {"publish", "return", "ended"}, pc' = [pc EXCEPT ![i] = label],
             result' = [result EXCEPT ![i] = result[i]],
             \A r \in Runners, k \in Keys :
               call'[r][k].state = "hit" => call'[r][k].kind = "value"
      PROVE  Books'
  <2>1. EntryAt(i, label, result[i], attempt[i])
    BY <1>0, <1>1 DEF EntryAt, Having
  <2>2. ASSUME NEW c \in PerItem
        PROVE  CountedAt(c, i, label, result[i], got[i], attempt[i], leads) <=> Counted(c, i)
    BY <1>0 DEF PerItem, Counted, CountedAt, Working, Having
  <2>3. ASSUME result[i].kind # "error"
        PROVE  Accounts(i, label, result[i], got[i], attempt[i], leads, {})
    <3>1. ~OwesAt(label, attempt[i]) /\ ~OwesAt(pc[i], attempt[i])
      BY <1>0 DEF OwesAt
    <3>2. \A n \in 1 .. Attempts - 1 :
            RetriedAt(n, label, attempt[i]) <=> RetriedAt(n, pc[i], attempt[i])
      BY <1>0 DEF RetriedAt
    <3> QED BY <2>2, <2>3, <3>1, <3>2, QuietAccounts
  <2>4. label \in PC
    BY DEF PC
  <2>5. Enters(i, label, result[i], got[i], attempt[i], leads, {})
    BY <1>0, <1>2 DEF Enters
  <2> QED BY <1>1, <1>2, <2>1, <2>3, <2>4, <2>5, EnterBooks
<1>3. CASE Observe(i)
  <2>1. UNCHANGED call
    BY <1>3 DEF Observe
  <2>2. ASSUME NEW c \in {"ledger", "hook"}, Resolve(i, Error(c)) PROVE Books'
    BY <1>0, <1>1, <2>1, <2>2, ErrorBooks DEF Causes, FaultKinds
  <2>3. CASE Resolve(i, result[i])
    <3>1. \E label \in {"publish", "return", "ended"} : pc' = [pc EXCEPT ![i] = label]
      BY <2>3 DEF Resolve, Goto
    <3>2. result' = [result EXCEPT ![i] = result[i]]
      BY <2>3 DEF Resolve
    <3> QED BY <1>2, <2>1, <3>1, <3>2, EntryFacts
  <2> QED BY <1>3, <2>2, <2>3 DEF Observe
<1>4. CASE Return(i)
  <2>1. UNCHANGED <<call, result>> /\ pc' = [pc EXCEPT ![i] = "ended"]
    BY <1>4 DEF Return, Goto
  <2> QED BY <1>1, <1>2, <2>1, EntryFacts
<1>5. CASE Publish(i)
  <2>1. /\ UNCHANGED result /\ pc' = [pc EXCEPT ![i] = "return"]
        /\ call' = [call EXCEPT ![RunnerOf[i]][KeyOf[i]] = result[i]]
    BY <1>5 DEF Publish, Goto
  <2>2. \A r \in Runners, k \in Keys :
          call'[r][k].state = "hit" => call'[r][k].kind = "value"
    <3>1. result[i].state = "hit" => result[i].kind = "value"
      BY <1>1 DEF EntryAt
    <3>2. \A r \in Runners, k \in Keys : call'[r][k] \in {call[r][k], result[i]}
      BY <2>1 DEF Inv, Types
    <3> QED BY <3>1, <3>2 DEF Books
  <2> QED BY <1>1, <1>2, <2>1, <2>2
<1> QED BY <1>3, <1>4, <1>5

\* A worker takes an item and counts it.
LEMMA ProcessBooks ==
    ASSUME Inv, Books, NEW i \in Items, Process(i)
    PROVE  Books'
<1>0. /\ pc[i] = "idle" /\ i \in input /\ Count(i, {"Items"}) /\ UNCHANGED <<input, attempt>>
      /\ got' = [got EXCEPT ![i] = got[i]]
      /\ attempt' = [attempt EXCEPT ![i] = attempt[i]]
  BY ItemFacts, EntryFacts DEF Process
<1>1. /\ result[i] = NoResult /\ got[i] = None /\ i \notin leads /\ attempt[i] = 1
      /\ result[i] \in AnyResult /\ got[i] \in Values \cup {None}
      /\ result[i].state = "" /\ result[i].kind = "none"
      /\ UNCHANGED result => result' = [result EXCEPT ![i] = result[i]]
  BY <1>0, ItemFacts, EntryFacts, StateFacts DEF ItemAt, ControlAt, EntryAt, Working, Having
<1>2. {"Items"} \in SUBSET Counters
  BY DEF Counters
<1>3. ASSUME NEW label \in {"admit", "follow", "load"}, NEW who \in {leads, leads \cup {i}},
             label = "admit" => ~IsCached(i), pc' = [pc EXCEPT ![i] = label],
             UNCHANGED result, leads' = who,
             \A r \in Runners, k \in Keys :
               call'[r][k].state = "hit" => call'[r][k].kind = "value"
      PROVE  Books'
  <2>1. EntryAt(i, label, result[i], attempt[i])
    BY <1>0, <1>1, EntryFacts DEF EntryAt, Having
  <2>2. ASSUME NEW c \in PerItem
        PROVE  /\ c \in {"Items"} => ~Counted(c, i)
               /\ CountedAt(c, i, label, result[i], got[i], attempt[i], who) <=>
                    Counted(c, i) \/ c \in {"Items"}
    BY <1>0, <1>1, <1>3 DEF PerItem, Counted, CountedAt, Working, Having
  <2>3. Accounts(i, label, result[i], got[i], attempt[i], who, {"Items"})
    <3>1. ~OwesAt(label, attempt[i]) /\ ~OwesAt(pc[i], attempt[i])
      <4>1. pc[i] = "idle" /\ attempt[i] = 1
        BY <1>0, <1>1
      <4> QED BY <4>1 DEF OwesAt
    <3>2. \A n \in 1 .. Attempts - 1 :
            RetriedAt(n, label, attempt[i]) <=> RetriedAt(n, pc[i], attempt[i])
      BY <1>0 DEF RetriedAt
    <3> QED BY <1>1, <2>2, <3>1, <3>2, QuietAccounts
  <2>4. label \in PC
    BY DEF PC
  <2>5. Enters(i, label, result[i], got[i], attempt[i], who, {"Items"})
    BY <1>0, <1>1, <1>3 DEF Enters
  <2> QED BY <1>0, <1>1, <1>2, <1>3, <2>1, <2>3, <2>4, <2>5, EnterBooks
<1>4. CASE ~IsCached(i) /\ Goto(i, "admit") /\ UNCHANGED <<call, leads, result>>
  BY <1>3, <1>4, EntryFacts DEF Goto
<1>5. CASE /\ result' = [result EXCEPT ![i] = Error("key")] /\ Goto(i, "return")
           /\ UNCHANGED <<call, leads>>
  <2>1. /\ Error("key") \in AnyResult /\ Error("key").kind = "error"
        /\ Error("key").state = "key"
    BY ResultFacts, StateFacts DEF Causes, FaultKinds
  <2>2. EntryAt(i, "return", Error("key"), attempt[i])
    BY <1>0, <1>1, <2>1, EntryFacts DEF EntryAt, Having
  <2>3. "return" \in PC
    BY DEF PC
  <2> QED BY <1>0, <1>1, <1>2, <1>5, <2>1, <2>2, <2>3, PlainBooks DEF Goto
<1>6. CASE Goto(i, "follow") /\ UNCHANGED <<call, leads, result>>
  BY <1>3, <1>6, EntryFacts DEF Goto
<1>7. CASE /\ call' = [call EXCEPT ![RunnerOf[i]][KeyOf[i]] = Open]
           /\ leads' = leads \cup {i} /\ Goto(i, "load") /\ UNCHANGED result
  <2>1. \A r \in Runners, k \in Keys : call'[r][k].state = "hit" => call'[r][k].kind = "value"
    <3>1. \A r \in Runners, k \in Keys : call'[r][k] \in {call[r][k], Open}
      BY <1>7 DEF Inv, Types
    <3>2. Open.state # "hit"
      BY StateFacts
    <3> QED BY <3>1, <3>2 DEF Books
  <2> QED BY <1>3, <1>7, <2>1 DEF Goto
<1> QED BY <1>4, <1>5, <1>6, <1>7 DEF Process

\* A program that has not begun.
Unbegun ==
    /\ input \in Inputs /\ attempt = [i \in Items |-> 1] /\ pc = [i \in Items |-> "idle"]
    /\ result = [i \in Items |-> NoResult] /\ leads = {} /\ got = [i \in Items |-> None]
    /\ call = [r \in Runners |-> [k \in Keys |-> NoResult]]
    /\ counts = [r \in Runners |-> [c \in Counters |-> 0]]

\* Its empty report is balanced.
LEMMA FreshBooks == Unbegun => Books
<1> SUFFICES ASSUME Unbegun PROVE Books
  OBVIOUS
<1> USE DEF Unbegun
<1>1. attempt \in [Items -> Nat] /\ counts \in [Runners -> [Counters -> Nat]]
  OBVIOUS
<1>2. \A i \in Items : Entry(i)
  <2>1. NoResult.state = "" /\ NoResult.kind = "none"
    BY StateFacts
  <2>2. 1 \in 1 .. Attempts
    BY RunnerAssumption
  <2> QED BY <2>1, <2>2 DEF Entry, EntryAt, Having
<1>3. \A r \in Runners, k \in Keys : call[r][k].state # "hit"
  BY StateFacts
<1>4. ASSUME NEW r \in Runners PROVE Balanced(r)
  <2>1. Of(r) \subseteq Items
    BY RunnerAssumption DEF Of
  <2>2. ASSUME NEW i \in Of(r)
        PROVE  /\ ~OwesAt(pc[i], attempt[i])
               /\ \A n \in 1 .. Attempts - 1 : ~RetriedAt(n, pc[i], attempt[i])
               /\ \A c \in PerItem : ~Counted(c, i)
    <3>0. /\ pc[i] = "idle" /\ attempt[i] = 1
      BY <2>1
    <3>1. ~OwesAt(pc[i], attempt[i])
      BY <3>0 DEF OwesAt
    <3>2. \A n \in 1 .. Attempts - 1 : ~RetriedAt(n, pc[i], attempt[i])
      BY <3>0, RunnerAssumption DEF RetriedAt
    <3>3. ~(attempt[i] > 1)
      BY <3>0
    <3>4. result[i].state = "" /\ result[i].kind = "none" /\ got[i] = None
      BY <2>1, StateFacts
    <3>5. \A c \in PerItem : ~Counted(c, i)
      BY <3>0, <3>3, <3>4 DEF PerItem, Counted, CountedAt, Working, Having
    <3> QED BY <3>1, <3>2, <3>5
  <2>3. Owing(r) = {} /\ Retried(r) = {} /\ \A c \in PerItem : Tally(c, r) = {}
    BY <2>2 DEF Owing, Retried, Tally
  <2>4. \A c \in Counters : counts[r][c] = 0
    OBVIOUS
  <2>5. PerItem \subseteq Counters /\ {"Retries", "WorkCalls"} \subseteq Counters
    BY DEF PerItem, Counters
  <2> QED BY <2>3, <2>4, <2>5, FS_EmptySet DEF Balanced, PerItem
<1> QED BY <1>1, <1>2, <1>3, <1>4 DEF Books

\* The books are kept by every step.
LEMMA BooksHold == Spec => [](Inv /\ Books)
<1>1. Init => Books
  BY FreshBooks DEF Init, Unbegun
<1>2. Inv /\ Books /\ [Next]_vars => Books'
  <2> SUFFICES ASSUME Inv, Books, [Next]_vars PROVE Books'
    OBVIOUS
  <2>1. ASSUME NEW i \in Items, Process(i) \/ ItemStep(i) PROVE Books'
    BY <2>1, ProcessBooks, ResolvedBooks, FollowBooks, LoadBooks, AdmitBooks, DoBooks,
       RetryBooks, BackOffBooks, CommitBooks DEF ItemStep
  <2>2. ASSUME UNCHANGED <<input, call, pc, leads, attempt, got, result, counts>> PROVE Books'
    <3>1. \A r \in Runners : Of(r)' = Of(r)
      BY <2>2 DEF Of
    <3>2. \A r \in Runners : Owing(r)' = Owing(r) /\ Retried(r)' = Retried(r)
      BY <2>2, <3>1 DEF Owing, Retried
    <3>3. \A r \in Runners : \A c \in PerItem : Tally(c, r)' = Tally(c, r)
      BY <2>2, <3>1 DEF Tally, Counted, CountedAt
    <3>4. \A r \in Runners : (Clean(r)' <=> Clean(r)) /\ (Balanced(r) => Balanced(r)')
      BY <2>2, <3>1, <3>2, <3>3 DEF Clean, Balanced
    <3>5. \A i \in Items : Entry(i)'
      BY <2>2 DEF Books, Entry, EntryAt
    <3> QED BY <2>2, <3>4, <3>5 DEF Books
  <2>3. ASSUME NEW r \in Runners, Cancel(r) PROVE Books'
    BY <2>2, <2>3 DEF Cancel
  <2>4. CASE UNCHANGED vars
    BY <2>2, <2>4 DEF vars
  <2>5. CASE Restart
    <3>1. Unbegun'
      BY <2>5 DEF Books, Restart, Fresh, Unbegun
    <3>2. (Unbegun => Books)'
      BY FreshBooks, PTL
    <3> QED BY <3>1, <3>2
  <2> QED BY <2>1, <2>3, <2>4, <2>5 DEF Next
<1> QED BY <1>1, <1>2, InvHolds, PTL DEF Spec

------------------------------------------------------------------------------
(* Theorems                                                                  *)

\* In one process at most one Do of a cached step succeeds for a key (process:
\* "so a key never runs twice in one process"): only a leader pays, and a call has
\* one.
THEOREM NeverRunsTwice == Spec => []KeyRunsOnce
<1>1. Inv => KeyRunsOnce
  BY DEF Inv, OneLeader, ItemOK, ItemAt, ControlAt, IsCached, KeyRunsOnce
<1> QED BY <1>1, InvHolds, PTL

\* If no two cached steps share an Identity, the value of every item is the
\* stored value of its key, and a quarantined or skipped key is not stored.
THEOREM OutputIsStored == ASSUME KeysApart PROVE Spec => []OutputMatchesStore
<1>1. Inv => OutputMatchesStore
  BY DEF Inv, ItemOK, ItemAt, ContentsAt, Stored, Having, Resolved, OutputMatchesStore
<1> QED BY <1>1, InvHolds, PTL

\* Under the same hypothesis a successful Do is in the Store when its item ends,
\* whatever was canceled or failed but the Store and the meters (success).
THEOREM PaidIsKept == ASSUME KeysApart PROVE Spec => []PaidWorkIsKept
<1>1. Inv => PaidWorkIsKept
  BY DEF Inv, ItemOK, ItemAt, ContentsAt, Having, PaidWorkIsKept
<1> QED BY <1>1, InvHolds, PTL

\* Under the same hypothesis an entry is never replaced, in this run or a later
\* one: the one action that writes the Store finds its key empty.
THEOREM NeverReplaced == ASSUME KeysApart PROVE Spec => StoredForGood
<1> DEFINE Keeps == \A k \in Keys : store[k] # None => store'[k] = store[k]
<1>1. Inv /\ [Next]_vars => [Keeps]_vars
  <2> SUFFICES ASSUME Inv, Next PROVE Keeps
    BY DEF Keeps
  <2>1. ASSUME NEW i \in Items, Commit(i) PROVE Keeps
    <3>1. store[KeyOf[i]] = None
      BY <2>1, ItemFacts DEF Commit, ItemAt, ControlAt, ContentsAt, Working
    <3> QED BY <2>1, <3>1 DEF Inv, Types, Commit, StoreValue
  <2>2. CASE UNCHANGED store
    BY <2>2
  <2>3. UNCHANGED store \/ \E i \in Items : Commit(i)
    BY DEF Next, Process, ItemStep, Publish, Return, FollowCanceled, FollowCall, Load, Admit,
           DoSucceeds, DoOverflows, DoCanceled, DoRetries, DoFails, BackOff, Observe, Cancel,
           Restart
  <2> QED BY <2>1, <2>2, <2>3
<1> QED BY <1>1, InvHolds, PTL DEF Spec, StoredForGood

\* When every item of a step has ended without an error, its StepReport adds up:
\* hits and misses, flagged and stored items are each counted once, every work call
\* is a first attempt or a retry, and nothing is retried beyond the policy (the
\* counters of process, follow, lead, work, success and fail).
THEOREM ReportIsExact == Spec => []ReportAddsUp
<1>1. Inv /\ Books => ReportAddsUp
  <2> SUFFICES ASSUME Inv, Books, NEW r \in Runners,
                      \A i \in Of(r) : pc[i] = "ended" /\ result[i].kind # "error"
               PROVE  /\ counts[r]["Items"] = Cardinality(Of(r))
                      /\ counts[r]["Hits"] + counts[r]["Misses"]
                           = IF r \in Cached THEN counts[r]["Items"] ELSE 0
                      /\ counts[r]["Hits"] = Cardinality({i \in Of(r) : result[i].state = "hit"})
                      /\ counts[r]["Quarantined"]
                           = Cardinality({i \in Of(r) : result[i].kind = "quarantined"})
                      /\ counts[r]["Skipped"]
                           = Cardinality({i \in Of(r) : result[i].kind = "skipped"})
                      /\ counts[r]["Stored"]
                           = Cardinality({i \in leads \cap Of(r) : got[i] # None})
                      /\ counts[r]["WorkCalls"]
                           = counts[r]["StartedSequences"] + counts[r]["Retries"]
                      /\ counts[r]["Retries"] <= (Attempts - 1) * counts[r]["StartedSequences"]
    BY DEF ReportAddsUp
  <2>1. Balanced(r) /\ Of(r) \subseteq Items
    BY RunnerAssumption DEF Books, Clean, Of
  <2>2. \A c \in PerItem : counts[r][c] = Cardinality(Tally(c, r)) /\ IsFiniteSet(Tally(c, r))
    BY <2>1, FiniteTallies DEF Balanced
  <2>3. Tally("Items", r) = Of(r)
    BY DEF Tally, Counted, CountedAt
  <2>4. Tally("Hits", r) = {i \in Of(r) : result[i].state = "hit"}
    BY DEF Tally, Counted, CountedAt
  <2>5. Tally("Quarantined", r) = {i \in Of(r) : result[i].kind = "quarantined"}
    BY DEF Tally, Counted, CountedAt
  <2>6. Tally("Skipped", r) = {i \in Of(r) : result[i].kind = "skipped"}
    BY DEF Tally, Counted, CountedAt
  <2>7. Tally("Stored", r) = {i \in leads \cap Of(r) : got[i] # None}
    BY DEF Tally, Counted, CountedAt
  <2>8. counts[r]["Hits"] + counts[r]["Misses"]
          = IF r \in Cached THEN counts[r]["Items"] ELSE 0
    <3>1. \A i \in Of(r) : IsCached(i) <=> r \in Cached
      BY DEF Of, IsCached
    <3>2. CASE r \in Cached
      <4>1. Tally("Misses", r) = Of(r) \ Tally("Hits", r)
        BY <3>1, <3>2 DEF Tally, Counted, CountedAt, Working, Having
      <4>2. Tally("Hits", r) \subseteq Of(r) /\ IsFiniteSet(Of(r))
        BY FiniteTallies DEF Tally
      <4>3. Cardinality(Tally("Misses", r)) = Cardinality(Of(r)) - Cardinality(Tally("Hits", r))
        <5>1. Of(r) \cap Tally("Hits", r) = Tally("Hits", r)
          BY <4>2
        <5> QED BY <4>1, <4>2, <5>1, FS_Difference
      <4>4. /\ Cardinality(Of(r)) \in Nat /\ Cardinality(Tally("Hits", r)) \in Nat
            /\ {"Hits", "Misses", "Items"} \subseteq PerItem
        BY <4>2, <2>2, FS_CardinalityType DEF PerItem
      <4> QED BY <2>2, <2>3, <3>2, <4>3, <4>4
    <3>3. CASE r \notin Cached
      <4>1. Tally("Misses", r) = {}
        BY <3>1, <3>3 DEF Tally, Counted, CountedAt
      <4>2. Tally("Hits", r) = {}
        BY <2>1, <2>4, <3>1, <3>3 DEF Books, Entry, EntryAt
      <4>3. {"Hits", "Misses"} \subseteq PerItem
        BY DEF PerItem
      <4> QED BY <2>2, <3>3, <4>1, <4>2, <4>3, FS_EmptySet
    <3> QED BY <3>2, <3>3
  <2>9. counts[r]["WorkCalls"] = counts[r]["StartedSequences"] + counts[r]["Retries"]
    <3>1. Owing(r) = {}
      BY DEF Owing, OwesAt
    <3>2. counts[r]["WorkCalls"] \in Nat
      BY DEF Books, Counters
    <3> QED BY <2>1, <3>1, <3>2, FS_EmptySet DEF Balanced
  <2>10. counts[r]["Retries"] <= (Attempts - 1) * counts[r]["StartedSequences"]
    <3> DEFINE S == Tally("StartedSequences", r)
               T == 1 .. Attempts - 1
    <3>1. Retried(r) \subseteq S \X T
      <4>1. ASSUME NEW p \in Retried(r) PROVE p[1] \in S /\ p[2] \in T /\ p = <<p[1], p[2]>>
        <5>1. /\ p \in Of(r) \X T /\ p[1] \in Of(r) /\ p[2] \in T
              /\ RetriedAt(p[2], pc[p[1]], attempt[p[1]])
          BY DEF Retried
        <5>2. pc[p[1]] = "ended" /\ attempt[p[1]] \in 1 .. Attempts
          BY <2>1, <5>1 DEF Books, Entry, EntryAt
        <5>3. attempt[p[1]] > 1
          BY <5>1, <5>2, RunnerAssumption DEF RetriedAt
        <5> QED BY <5>1, <5>3 DEF Tally, Counted, CountedAt
      <4> QED BY <4>1
    <3>2. "StartedSequences" \in PerItem
      BY DEF PerItem
    <3>3. IsFiniteSet(S) /\ counts[r]["StartedSequences"] = Cardinality(S)
      BY <2>2, <3>2
    <3>4. IsFiniteSet(T) /\ Cardinality(T) = Attempts - 1
      <4>1. Attempts - 1 \in Int /\ Attempts \in Nat \ {0} /\ 1 \in Int
        BY RunnerAssumption
      <4>2. /\ IsFiniteSet(1 .. Attempts - 1)
            /\ Cardinality(1 .. Attempts - 1)
                 = IF 1 > Attempts - 1 THEN 0 ELSE (Attempts - 1) - 1 + 1
        BY ONLY <4>1, FS_Interval
      <4> QED BY ONLY <4>1, <4>2
    <3> HIDE DEF S, T
    <3>5. IsFiniteSet(S \X T) /\ Cardinality(S \X T) = Cardinality(S) * Cardinality(T)
      BY <3>3, <3>4, FS_Product
    <3>6. Cardinality(Retried(r)) <= Cardinality(S \X T)
      BY <3>1, <3>5, FS_Subset
    <3>7. Cardinality(S) \in Nat /\ Attempts \in Nat
      BY <3>3, FS_CardinalityType, RunnerAssumption
    <3>8. Cardinality(S) * (Attempts - 1) = (Attempts - 1) * Cardinality(S)
      BY <3>7
    <3>9. counts[r]["Retries"] = Cardinality(Retried(r))
      BY <2>1 DEF Balanced
    <3> QED BY <3>3, <3>4, <3>5, <3>6, <3>8, <3>9
  <2>11. PerItem = {"Items", "Hits", "Misses", "Quarantined", "Skipped", "Stored",
                    "StartedSequences"}
    BY DEF PerItem
  <2> QED BY <2>2, <2>3, <2>4, <2>5, <2>6, <2>7, <2>8, <2>9, <2>10, <2>11
<1> QED BY <1>1, BooksHold, PTL
==============================================================================
