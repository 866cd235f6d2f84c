---------------------------- MODULE RolloutProofs ----------------------------
(***************************************************************************)
(* Proofs about EventContract and Rollout, for every set of fields, types  *)
(* and processes and any number of versions.  The argument: what a Parse   *)
(* that has passed Check requires is recorded as required; a required      *)
(* field is removed no sooner than it was optional for a whole release,    *)
(* and added no sooner than every event that may arrive has it.            *)
(***************************************************************************)
EXTENDS Rollout, TLAPS

Passed(c) == c \in Contract /\ Check(c) /\ ReadsWhatIsRecorded(c)

AllPassed == \A v \in Version : Passed(main[v])

(* A name stands for one type in all versions.                             *)
NamesAgree == \A v, w \in Version, f \in Field :
  main[v].values[f] # NULL /\ main[w].values[f] # NULL
    => main[v].values[f] = main[w].values[f]

(* Processes run the newest version or the one before it.                  *)
Recent == {v \in Version : v >= Len(main) - 1}
LagsByOne == \A p \in Process : version[p] \in Recent

(* What a version that may run requires is in every event that may arrive. *)
Has(v, w) == \A f \in Field :
  main[w].recorded[f] # NULL /\ ~main[w].recorded[f].optional => main[v].values[f] # NULL

RequiredArrives == \A w \in Recent, v \in wire \cup Recent : Has(v, w)

IInv == TypeOK /\ AllPassed /\ NamesAgree /\ LagsByOne /\ RequiredArrives /\ NothingRefused

-----------------------------------------------------------------------------
(* Check makes the record and Parse agree: what Parse reads is emitted with*)
(* that type, and what it requires is recorded as required.                *)
LEMMA ReadAsRecorded ==
  ASSUME NEW c \in Contract, Check(c), ReadsWhatIsRecorded(c), NEW f \in Field, c.parse[f] # NULL
  PROVE  /\ c.recorded[f] # NULL
         /\ c.values[f] = c.parse[f].type /\ c.values[f] # NULL
         /\ ~c.parse[f].optional => ~c.recorded[f].optional
  <1>1. c.recorded[f] # NULL  BY DEF ReadsWhatIsRecorded
  <1>2. c.values[f] # NULL  BY <1>1 DEF Check
  <1>3. Parse(c, c.values)  BY DEF Check, CheckParse
  <1>4. c.values[f] = c.parse[f].type  BY <1>2, <1>3 DEF Parse, Required, Optional
  <1>5. ASSUME ~c.parse[f].optional  PROVE ~c.recorded[f].optional
    <2>1. c.parse[f] \in Entry /\ c.values \in Payload /\ c.recorded[f] \in Entry
      BY <1>1 DEF Contract, Schema
    <2>2. c.parse[f].type # NULL  BY <2>1, TypeAssumption DEF Entry
    <2>3. ~Parse(c, [c.values EXCEPT ![f] = NULL])
      BY <1>5, <2>1, <2>2 DEF Parse, Required, Payload
    <2> QED  BY <1>1, <1>2, <2>1, <2>3 DEF Check, CheckParse, Entry
  <1> QED  BY <1>1, <1>2, <1>4, <1>5

(* A payload with the same names for the same types, and with all that is  *)
(* recorded as required, can be parsed.                                    *)
LEMMA Understood ==
  ASSUME NEW c, Passed(c), NEW values \in Payload,
         \A f \in Field : c.values[f] # NULL /\ values[f] # NULL => c.values[f] = values[f],
         \A f \in Field : c.recorded[f] # NULL /\ ~c.recorded[f].optional => values[f] # NULL
  PROVE  Parse(c, values)
  <1> SUFFICES ASSUME NEW f \in Field, c.parse[f] # NULL
               PROVE  IF c.parse[f].optional THEN Optional(values, f, c.parse[f].type)
                                             ELSE Required(values, f, c.parse[f].type)
    BY DEF Parse
  <1>1. /\ c.recorded[f] # NULL
        /\ c.values[f] = c.parse[f].type /\ c.values[f] # NULL
        /\ ~c.parse[f].optional => ~c.recorded[f].optional
    BY ReadAsRecorded DEF Passed
  <1>2. CASE c.parse[f].optional
    BY <1>1, <1>2 DEF Optional
  <1>3. CASE ~c.parse[f].optional
    BY <1>1, <1>3 DEF Required
  <1> QED  BY <1>2, <1>3

(* eventcompat keeps its promise: a consumer built from the main branch    *)
(* can parse what a producer built from a pull request that passes emits.  *)
THEOREM OldConsumerUnderstands ==
  ASSUME NEW previous, NEW current, Passed(previous), Passed(current),
         Compatible(previous.recorded, current.recorded)
  PROVE  Parse(previous, current.values)
  <1>1. current.values \in Payload  BY DEF Passed, Contract
  <1>2. \A f \in Field : previous.values[f] # NULL /\ current.values[f] # NULL
                           => previous.values[f] = current.values[f]
    BY DEF Passed, Check, Compatible
  <1>3. \A f \in Field : previous.recorded[f] # NULL /\ ~previous.recorded[f].optional
                           => current.values[f] # NULL
    BY DEF Passed, Check, Compatible
  <1> QED  BY <1>1, <1>2, <1>3, Understood

-----------------------------------------------------------------------------
LEMMA MergedVersions ==
  ASSUME TypeOK, NEW c \in Contract, Merge(c)
  PROVE  /\ Len(main) \in Nat \ {0}
         /\ main' \in Seq(Contract) /\ Len(main') = Len(main) + 1
         /\ Version \subseteq Version' /\ Version' = Version \cup {Len(main) + 1}
         /\ \A v \in Version : main'[v] = main[v]
         /\ main'[Len(main) + 1] = c
         /\ Recent' = {Len(main), Len(main) + 1}
  <1>1. main \in Seq(Contract) /\ main # <<>> /\ main' = Append(main, c)
    BY DEF TypeOK, Merge
  <1>2. /\ Len(main) \in Nat \ {0}
        /\ main' \in Seq(Contract) /\ Len(main') = Len(main) + 1
        /\ \A v \in Version : main'[v] = main[v]
        /\ main'[Len(main) + 1] = c
    BY <1>1 DEF Version
  <1>3. Version' = Version \cup {Len(main) + 1}
    BY <1>2 DEF Version
  <1>4. Recent' = {v \in Version' : v >= Len(main)}
    BY <1>2 DEF Recent
  <1>5. Recent' = {Len(main), Len(main) + 1}
    BY <1>2, <1>3, <1>4 DEF Version
  <1> QED  BY <1>2, <1>3, <1>5

LEMMA MergeStep ==
  ASSUME IInv, NEW c \in Contract, Merge(c)
  PROVE  IInv'
  <1> DEFINE n == Len(main)
  <1>0. /\ Passed(c) /\ Released /\ AddsOptional(c) /\ PromotesInTime(c) /\ KeepsNames(c)
        /\ Compatible(Latest.recorded, c.recorded)
        /\ UNCHANGED <<version, up, wire, dead>>
    BY DEF Merge, Procedure, Passed
  <1>1. TypeOK  BY DEF IInv
  <1>2. /\ n \in Nat \ {0}
        /\ main' \in Seq(Contract) /\ Len(main') = n + 1
        /\ Version' = Version \cup {n + 1}
        /\ \A v \in Version : main'[v] = main[v]
        /\ main'[n + 1] = c
        /\ Recent' = {n, n + 1}
    BY <1>1, MergedVersions
  <1>3. n \in Version /\ n \in Recent /\ n + 1 \notin Version /\ Latest = main[n]
    BY <1>2 DEF Version, Recent, Latest
  <1>4. wire \subseteq Version  BY <1>1 DEF TypeOK
  <1> HIDE DEF n
  <1>5. TypeOK'
    <2>1. main' # <<>>  BY <1>2
    <2> QED  BY <1>0, <1>1, <1>2, <2>1 DEF TypeOK
  <1>6. AllPassed'
    <2>1. ASSUME NEW v \in Version'  PROVE Passed(main'[v])
      BY <1>0, <1>2, <2>1 DEF IInv, AllPassed
    <2> QED  BY <2>1 DEF AllPassed, Passed, Check, CheckParse, ReadsWhatIsRecorded, Parse
  <1>7. NamesAgree'
    <2>1. \A v, w \in Version, f \in Field :
            main[v].values[f] # NULL /\ main[w].values[f] # NULL
              => main[v].values[f] = main[w].values[f]
      BY DEF IInv, NamesAgree
    <2>2. \A v \in Version, f \in Field :
            c.values[f] # NULL /\ main[v].values[f] # NULL => c.values[f] = main[v].values[f]
      BY <1>0 DEF KeepsNames
    <2> QED  BY <1>2, <2>1, <2>2 DEF NamesAgree
  <1>8. LagsByOne'
    BY <1>0, <1>2 DEF LagsByOne, Released, n
  <1>9. RequiredArrives'
    <2>1. ASSUME NEW v \in wire \cup {n}, NEW f \in Field,
                 c.recorded[f] # NULL, ~c.recorded[f].optional
          PROVE  main[v].values[f] # NULL
      <3>1. Latest.recorded[f] # NULL  BY <1>0, <2>1 DEF AddsOptional
      <3>2. CASE ~Latest.recorded[f].optional
        BY <1>3, <3>1, <3>2 DEF IInv, RequiredArrives, Has
      <3>3. CASE Latest.recorded[f].optional /\ v \in wire
        BY <1>0, <2>1, <3>1, <3>3 DEF PromotesInTime, Arriving
      <3>4. CASE v = n
        BY <1>3, <3>1, <3>4 DEF IInv, AllPassed, Passed, Check
      <3> QED  BY <3>2, <3>3, <3>4
    <2>2. \A f \in Field : c.recorded[f] # NULL => c.values[f] # NULL
      BY <1>0 DEF Passed, Check
    <2>3. ASSUME NEW f \in Field, main[n].recorded[f] # NULL, ~main[n].recorded[f].optional
          PROVE  c.values[f] # NULL
      <3>1. c.recorded[f] # NULL  BY <1>0, <1>3, <2>3 DEF Compatible
      <3> QED  BY <2>2, <3>1
    <2>4. ASSUME NEW v \in wire \cup {n}, NEW f \in Field,
                 main[n].recorded[f] # NULL, ~main[n].recorded[f].optional
          PROVE  main[v].values[f] # NULL
      BY <1>3, <2>4 DEF IInv, RequiredArrives, Has
    <2>5. ASSUME NEW w \in {n, n + 1}, NEW v \in wire \cup {n, n + 1}, NEW f \in Field,
                 main'[w].recorded[f] # NULL, ~main'[w].recorded[f].optional
          PROVE  main'[v].values[f] # NULL
      <3>1. main'[n] = main[n] /\ main'[n + 1] = c  BY <1>2, <1>3
      <3>2. \A u \in wire : main'[u] = main[u]  BY <1>2, <1>4
      <3>3. CASE w = n /\ v \in wire \cup {n}  BY <2>4, <2>5, <3>1, <3>2, <3>3
      <3>4. CASE w = n /\ v = n + 1  BY <2>3, <2>5, <3>1, <3>4
      <3>5. CASE w = n + 1 /\ v \in wire \cup {n}  BY <2>1, <2>5, <3>1, <3>2, <3>5
      <3>6. CASE w = n + 1 /\ v = n + 1  BY <2>2, <2>5, <3>1, <3>6
      <3> QED  BY <3>3, <3>4, <3>5, <3>6
    <2> QED  BY <1>0, <1>2, <2>5 DEF RequiredArrives, Has
  <1>10. NothingRefused'  BY <1>0 DEF IInv, NothingRefused
  <1> QED  BY <1>5, <1>6, <1>7, <1>8, <1>9, <1>10 DEF IInv

LEMMA HandleStep ==
  ASSUME IInv, NEW p \in Consumer, NEW v \in wire, Handle(p, v)
  PROVE  IInv'
  <1>1. /\ version[p] \in Recent /\ version[p] \in Version /\ v \in Version
    BY DEF IInv, LagsByOne, Process, TypeOK
  <1>2. Passed(main[version[p]]) /\ Passed(main[v])
    BY <1>1 DEF IInv, AllPassed
  <1>3. Parse(main[version[p]], main[v].values)
    <2>1. main[v].values \in Payload  BY <1>2 DEF Passed, Contract
    <2>2. \A f \in Field :
            main[version[p]].values[f] # NULL /\ main[v].values[f] # NULL
              => main[version[p]].values[f] = main[v].values[f]
      BY <1>1 DEF IInv, NamesAgree
    <2>3. \A f \in Field :
            main[version[p]].recorded[f] # NULL /\ ~main[version[p]].recorded[f].optional
              => main[v].values[f] # NULL
      BY <1>1 DEF IInv, RequiredArrives, Has
    <2> QED  BY <1>2, <2>1, <2>2, <2>3, Understood
  <1>4. UNCHANGED <<main, version, up, dead>> /\ wire' \subseteq wire
    BY <1>3 DEF Handle
  <1> QED
    BY <1>4 DEF IInv, TypeOK, AllPassed, NamesAgree, LagsByOne, RequiredArrives, Has,
                NothingRefused, Recent, Version

LEMMA ProcessStep ==
  ASSUME IInv, NEW p \in Process, Start(p) \/ Stop(p)
  PROVE  IInv'
  <1>1. Len(main) \in Recent /\ Len(main) \in Version
    BY DEF IInv, TypeOK, Recent, Version
  <1>2. /\ UNCHANGED <<main, wire, dead>> /\ up' \subseteq Process
        /\ \/ UNCHANGED version
           \/ version' = [version EXCEPT ![p] = Len(main)]
    <2>1. CASE Start(p)
      <3>1. PICK v \in {version[p], Len(main)} : version' = [version EXCEPT ![p] = v]
        BY <2>1 DEF Start
      <3>2. CASE v = version[p]
        BY <2>1, <3>1, <3>2 DEF Start, IInv, TypeOK
      <3>3. CASE v = Len(main)
        BY <2>1, <3>1, <3>3 DEF Start, IInv, TypeOK
      <3> QED  BY <3>1, <3>2, <3>3
    <2>2. CASE Stop(p)  BY <2>2 DEF Stop, IInv, TypeOK
    <2> QED  BY <2>1, <2>2
  <1>3. version' \in [Process -> Version] /\ \A q \in Process : version'[q] \in Recent
    BY <1>1, <1>2 DEF IInv, TypeOK, LagsByOne
  <1>4. Version' = Version /\ Recent' = Recent  BY <1>2 DEF Version, Recent
  <1>5. TypeOK'  BY <1>2, <1>3, <1>4 DEF IInv, TypeOK
  <1>6. AllPassed' /\ NamesAgree' /\ RequiredArrives' /\ NothingRefused'
    BY <1>2, <1>4 DEF IInv, AllPassed, NamesAgree, RequiredArrives, Has, NothingRefused
  <1>7. LagsByOne'  BY <1>3, <1>4 DEF LagsByOne
  <1> QED  BY <1>5, <1>6, <1>7 DEF IInv

LEMMA EmitStep ==
  ASSUME IInv, NEW p \in Producer, Emit(p)
  PROVE  IInv'
  <1>1. version[p] \in Recent /\ version[p] \in Version
    BY DEF IInv, TypeOK, LagsByOne, Process
  <1>2. UNCHANGED <<main, version, up, dead>> /\ wire' = wire \cup {version[p]}
    BY DEF Emit
  <1>3. Version' = Version /\ Recent' = Recent  BY <1>2 DEF Version, Recent
  <1>4. RequiredArrives'
    BY <1>1, <1>2, <1>3 DEF IInv, RequiredArrives, Has
  <1>5. TypeOK'  BY <1>1, <1>2, <1>3 DEF IInv, TypeOK
  <1> QED
    BY <1>2, <1>3, <1>4, <1>5 DEF IInv, AllPassed, NamesAgree, LagsByOne, NothingRefused

-----------------------------------------------------------------------------
LEMMA InvInit == Init => IInv
  <1> SUFFICES ASSUME Init  PROVE IInv
    OBVIOUS
  <1> USE FirstAssumption DEF Init
  <1>1. main \in Seq(Contract) /\ Len(main) = 1 /\ main[1] = First /\ main # <<>>
    OBVIOUS
  <1>2. Version = {1} /\ Recent = {1}  BY <1>1 DEF Version, Recent
  <1>3. Passed(First)  BY DEF Passed, ReadsWhatIsRecorded
  <1>4. TypeOK  BY <1>1, <1>2 DEF TypeOK
  <1>5. AllPassed /\ NamesAgree /\ LagsByOne /\ NothingRefused
    BY <1>1, <1>2, <1>3 DEF AllPassed, NamesAgree, LagsByOne, NothingRefused
  <1>6. RequiredArrives
    BY <1>1, <1>2, <1>3 DEF RequiredArrives, Has, Passed, Check
  <1> QED  BY <1>4, <1>5, <1>6 DEF IInv

LEMMA InvStep == IInv /\ [Next]_vars => IInv'
  <1>1. ASSUME IInv, UNCHANGED vars  PROVE IInv'
    BY <1>1 DEF vars, IInv, TypeOK, AllPassed, NamesAgree, LagsByOne, RequiredArrives, Has,
                NothingRefused, Recent, Version
  <1> QED  BY <1>1, MergeStep, HandleStep, ProcessStep, EmitStep DEF Next

(* The inductive invariant of the rollout.                                 *)
THEOREM Invariant == Spec => []IInv
  <1>1. Init => IInv  BY InvInit
  <1>2. IInv /\ [Next]_vars => IInv'  BY InvStep
  <1> QED  BY <1>1, <1>2, PTL DEF Spec

(* Every process runs a version that has been merged.                      *)
THEOREM TypeCorrect == Spec => []TypeOK
  <1>1. IInv => TypeOK  BY DEF IInv
  <1> QED  BY <1>1, Invariant, PTL

(* No event is refused by its consumer (ParseSettled, ParseCancelled) in a *)
(* rollout that follows the procedure, whatever mixture of versions runs.  *)
THEOREM NoEventRefused == Spec => []NothingRefused
  <1>1. IInv => NothingRefused  BY DEF IInv
  <1> QED  BY <1>1, Invariant, PTL
=============================================================================
