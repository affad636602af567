------------------------ MODULE ManagedAddressProofs ------------------------
(* Proofs about ManagedAddress for any set of addresses and any number of    *)
(* saves, owner's changes and faults.  Nothing is assumed of the owner, of   *)
(* the moment of a save or of the commands: what no program can repair is in *)
(* the history variable past, and each theorem speaks of the addresses that  *)
(* are not disputed.                                                         *)
EXTENDS ManagedAddress, TLAPS

\* A step of the system is one of its actions, or changes nothing.
LEMMA StepCases ==
  ASSUME [Next]_vars
  PROVE  \/ Save
         \/ Relinquish
         \/ RequestDies
         \/ WorkerStops
         \/ WorkerSkipsStop
         \/ WorkerStarts
         \/ DaemonStarts
         \/ DaemonObserves
         \/ DaemonReadsMarker
         \/ DaemonDropsPrevious
         \/ DaemonCannotDrop
         \/ DaemonForgetsPrevious
         \/ DaemonProbes
         \/ DaemonCannotProbe
         \/ DaemonAdds
         \/ DaemonCannotAdd
         \/ DaemonRecords
         \/ DaemonCannotRecord
         \/ DaemonUndoes
         \/ DaemonLeaves
         \/ DaemonChecksRecord
         \/ DaemonSkipsCleanup
         \/ DaemonDeletes
         \/ DaemonCannotDelete
         \/ DaemonUnmarks
         \/ DaemonDies
         \/ \E a \in Addrs : OwnerAdds(a) \/ OwnerRemoves(a)
         \/ UNCHANGED vars
BY DEF Next, DaemonStep, DaemonAccident, OwnerStep

\* Every variable stays in its type.
LEMMA TypeCorrect == Spec => []TypeOK
<1> USE AddressConstants
<1>1. Init => TypeOK
  <2> SUFFICES ASSUME Init PROVE TypeOK
    OBVIOUS
  <2> USE DEF Init, Settings
  <2>1. who \in [Addrs -> {"absent", "user", "emulator", "kept"}]
    OBVIOUS
  <2>2. config \in Settings /\ dcfg \in Settings
    OBVIOUS
  <2>3. term \in BOOLEAN
    BY Zenon
  <2>4. QED
    BY <2>1, <2>2, <2>3 DEF TypeOK
<1>2. TypeOK /\ [Next]_vars => TypeOK'
  <2> SUFFICES ASSUME TypeOK, [Next]_vars PROVE TypeOK'
    OBVIOUS
  <2> USE DEF TypeOK, Settings, Preparing, Cleaning, apiVars, daemonVars, Fault, Goes, Ends, OwnerMoves
  <2>1. CASE Save
    BY <2>1 DEF Save
  <2>2. CASE Relinquish
    BY <2>2 DEF Relinquish, GiveUp, Disputes, AtStake, Committed
  <2>3. CASE RequestDies
    BY <2>3 DEF RequestDies
  <2>4. CASE WorkerStops
    BY <2>4 DEF WorkerStops
  <2>5. CASE WorkerSkipsStop
    BY <2>5 DEF WorkerSkipsStop
  <2>6. CASE WorkerStarts
    BY <2>6 DEF WorkerStarts
  <2>7. CASE DaemonStarts
    BY <2>7 DEF DaemonStarts
  <2>8. CASE DaemonObserves
    BY <2>8 DEF DaemonObserves, GiveUp
  <2>9. CASE DaemonReadsMarker
    BY <2>9 DEF DaemonReadsMarker
  <2>10. CASE DaemonDropsPrevious
    <3>1. who' \in [Addrs -> {"absent", "user", "emulator", "kept"}]
      BY <2>10 DEF DaemonDropsPrevious
    <3>2. past' \in [Addrs -> {"foreign", "added", "disputed"}]
      BY <2>10 DEF DaemonDropsPrevious
    <3>3. term' \in BOOLEAN
      BY <2>10, Zenon DEF DaemonDropsPrevious
    <3>4. /\ config' \in Settings /\ dcfg' \in Settings
          /\ marker' \in Addrs \cup {NoAddr} /\ owned' \in Addrs \cup {NoAddr}
          /\ dpc' \in Preparing \cup Cleaning \cup {"off", "run"}
          /\ api' \in {"idle", "changed", "stop", "wait"} /\ kind' \in {"save", "start"}
          /\ saves' \in 0..MaxSaves /\ ownerSteps' \in 0..MaxOwnerSteps
          /\ faults' \in 0..MaxFaults
      BY <2>10 DEF DaemonDropsPrevious
    <3>5. QED
      BY <3>1, <3>2, <3>3, <3>4, Zenon
  <2>11. CASE DaemonCannotDrop
    <3>1. who' \in [Addrs -> {"absent", "user", "emulator", "kept"}]
      BY <2>11 DEF DaemonCannotDrop, DeleteFails, Disputes
    <3>2. past' \in [Addrs -> {"foreign", "added", "disputed"}]
      BY <2>11 DEF DaemonCannotDrop, DeleteFails, Disputes
    <3>3. term' \in BOOLEAN
      BY <2>11, Zenon DEF DaemonCannotDrop
    <3>4. /\ config' \in Settings /\ dcfg' \in Settings
          /\ marker' \in Addrs \cup {NoAddr} /\ owned' \in Addrs \cup {NoAddr}
          /\ dpc' \in Preparing \cup Cleaning \cup {"off", "run"}
          /\ api' \in {"idle", "changed", "stop", "wait"} /\ kind' \in {"save", "start"}
          /\ saves' \in 0..MaxSaves /\ ownerSteps' \in 0..MaxOwnerSteps
          /\ faults' \in 0..MaxFaults
      BY <2>11 DEF DaemonCannotDrop, DeleteFails, Disputes
    <3>5. QED
      BY <3>1, <3>2, <3>3, <3>4, Zenon
  <2>12. CASE DaemonForgetsPrevious
    BY <2>12 DEF DaemonForgetsPrevious
  <2>13. CASE DaemonProbes
    BY <2>13 DEF DaemonProbes
  <2>14. CASE DaemonCannotProbe
    <3>1. who' \in [Addrs -> {"absent", "user", "emulator", "kept"}]
      BY <2>14 DEF DaemonCannotProbe
    <3>2. past' \in [Addrs -> {"foreign", "added", "disputed"}]
      BY <2>14 DEF DaemonCannotProbe
    <3>3. term' \in BOOLEAN
      BY <2>14, Zenon DEF DaemonCannotProbe
    <3>4. /\ config' \in Settings /\ dcfg' \in Settings
          /\ marker' \in Addrs \cup {NoAddr} /\ owned' \in Addrs \cup {NoAddr}
          /\ dpc' \in Preparing \cup Cleaning \cup {"off", "run"}
          /\ api' \in {"idle", "changed", "stop", "wait"} /\ kind' \in {"save", "start"}
          /\ saves' \in 0..MaxSaves /\ ownerSteps' \in 0..MaxOwnerSteps
          /\ faults' \in 0..MaxFaults
      BY <2>14 DEF DaemonCannotProbe
    <3>5. QED
      BY <3>1, <3>2, <3>3, <3>4, Zenon
  <2>15. CASE DaemonAdds
    BY <2>15 DEF DaemonAdds
  <2>16. CASE DaemonCannotAdd
    <3>1. who' \in [Addrs -> {"absent", "user", "emulator", "kept"}]
      BY <2>16 DEF DaemonCannotAdd, AddFails
    <3>2. past' \in [Addrs -> {"foreign", "added", "disputed"}]
      BY <2>16 DEF DaemonCannotAdd, AddFails
    <3>3. term' \in BOOLEAN
      BY <2>16, Zenon DEF DaemonCannotAdd
    <3>4. /\ config' \in Settings /\ dcfg' \in Settings
          /\ marker' \in Addrs \cup {NoAddr} /\ owned' \in Addrs \cup {NoAddr}
          /\ dpc' \in Preparing \cup Cleaning \cup {"off", "run"}
          /\ api' \in {"idle", "changed", "stop", "wait"} /\ kind' \in {"save", "start"}
          /\ saves' \in 0..MaxSaves /\ ownerSteps' \in 0..MaxOwnerSteps
          /\ faults' \in 0..MaxFaults
      BY <2>16 DEF DaemonCannotAdd, AddFails
    <3>5. QED
      BY <3>1, <3>2, <3>3, <3>4, Zenon
  <2>17. CASE DaemonRecords
    BY <2>17 DEF DaemonRecords
  <2>18. CASE DaemonCannotRecord
    BY <2>18 DEF DaemonCannotRecord
  <2>19. CASE DaemonUndoes
    <3>1. who' \in [Addrs -> {"absent", "user", "emulator", "kept"}]
      BY <2>19 DEF DaemonUndoes, Disputes
    <3>2. past' \in [Addrs -> {"foreign", "added", "disputed"}]
      BY <2>19 DEF DaemonUndoes, Disputes
    <3>3. term' \in BOOLEAN
      BY <2>19, Zenon DEF DaemonUndoes
    <3>4. /\ config' \in Settings /\ dcfg' \in Settings
          /\ marker' \in Addrs \cup {NoAddr} /\ owned' \in Addrs \cup {NoAddr}
          /\ dpc' \in Preparing \cup Cleaning \cup {"off", "run"}
          /\ api' \in {"idle", "changed", "stop", "wait"} /\ kind' \in {"save", "start"}
          /\ saves' \in 0..MaxSaves /\ ownerSteps' \in 0..MaxOwnerSteps
          /\ faults' \in 0..MaxFaults
      BY <2>19 DEF DaemonUndoes, Disputes
    <3>5. QED
      BY <3>1, <3>2, <3>3, <3>4, Zenon
  <2>20. CASE DaemonLeaves
    BY <2>20 DEF DaemonLeaves
  <2>21. CASE DaemonChecksRecord
    BY <2>21 DEF DaemonChecksRecord, MayClean
  <2>22. CASE DaemonSkipsCleanup
    BY <2>22 DEF DaemonSkipsCleanup, MayClean
  <2>23. CASE DaemonDeletes
    <3>1. who' \in [Addrs -> {"absent", "user", "emulator", "kept"}]
      BY <2>23 DEF DaemonDeletes
    <3>2. past' \in [Addrs -> {"foreign", "added", "disputed"}]
      BY <2>23 DEF DaemonDeletes
    <3>3. term' \in BOOLEAN
      BY <2>23, Zenon DEF DaemonDeletes
    <3>4. /\ config' \in Settings /\ dcfg' \in Settings
          /\ marker' \in Addrs \cup {NoAddr} /\ owned' \in Addrs \cup {NoAddr}
          /\ dpc' \in Preparing \cup Cleaning \cup {"off", "run"}
          /\ api' \in {"idle", "changed", "stop", "wait"} /\ kind' \in {"save", "start"}
          /\ saves' \in 0..MaxSaves /\ ownerSteps' \in 0..MaxOwnerSteps
          /\ faults' \in 0..MaxFaults
      BY <2>23 DEF DaemonDeletes
    <3>5. QED
      BY <3>1, <3>2, <3>3, <3>4, Zenon
  <2>24. CASE DaemonCannotDelete
    <3>1. who' \in [Addrs -> {"absent", "user", "emulator", "kept"}]
      BY <2>24 DEF DaemonCannotDelete, DeleteFails, Disputes
    <3>2. past' \in [Addrs -> {"foreign", "added", "disputed"}]
      BY <2>24 DEF DaemonCannotDelete, DeleteFails, Disputes
    <3>3. term' \in BOOLEAN
      BY <2>24, Zenon DEF DaemonCannotDelete
    <3>4. /\ config' \in Settings /\ dcfg' \in Settings
          /\ marker' \in Addrs \cup {NoAddr} /\ owned' \in Addrs \cup {NoAddr}
          /\ dpc' \in Preparing \cup Cleaning \cup {"off", "run"}
          /\ api' \in {"idle", "changed", "stop", "wait"} /\ kind' \in {"save", "start"}
          /\ saves' \in 0..MaxSaves /\ ownerSteps' \in 0..MaxOwnerSteps
          /\ faults' \in 0..MaxFaults
      BY <2>24 DEF DaemonCannotDelete, DeleteFails, Disputes
    <3>5. QED
      BY <3>1, <3>2, <3>3, <3>4, Zenon
  <2>25. CASE DaemonUnmarks
    BY <2>25 DEF DaemonUnmarks
  <2>26. CASE DaemonDies
    <3>1. who' \in [Addrs -> {"absent", "user", "emulator", "kept"}]
      BY <2>26 DEF DaemonDies, Disputes, AtStake
    <3>2. past' \in [Addrs -> {"foreign", "added", "disputed"}]
      BY <2>26 DEF DaemonDies, Disputes, AtStake
    <3>3. term' \in BOOLEAN
      BY <2>26, Zenon DEF DaemonDies
    <3>4. /\ config' \in Settings /\ dcfg' \in Settings
          /\ marker' \in Addrs \cup {NoAddr} /\ owned' \in Addrs \cup {NoAddr}
          /\ dpc' \in Preparing \cup Cleaning \cup {"off", "run"}
          /\ api' \in {"idle", "changed", "stop", "wait"} /\ kind' \in {"save", "start"}
          /\ saves' \in 0..MaxSaves /\ ownerSteps' \in 0..MaxOwnerSteps
          /\ faults' \in 0..MaxFaults
      BY <2>26 DEF DaemonDies, Disputes, AtStake
    <3>5. QED
      BY <3>1, <3>2, <3>3, <3>4, Zenon
  <2>27. ASSUME NEW a \in Addrs, OwnerAdds(a) PROVE TypeOK'
    BY <2>27 DEF OwnerAdds
  <2>28. ASSUME NEW a \in Addrs, OwnerRemoves(a) PROVE TypeOK'
    BY <2>28 DEF OwnerRemoves, Disputes
  <2>29. CASE UNCHANGED vars
    BY <2>29 DEF vars
  <2> QED
    BY <2>1, <2>2, <2>3, <2>4, <2>5, <2>6, <2>7, <2>8, <2>9, <2>10,
       <2>11, <2>12, <2>13, <2>14, <2>15, <2>16, <2>17, <2>18, <2>19, <2>20,
       <2>21, <2>22, <2>23, <2>24, <2>25, <2>26, <2>27, <2>28, <2>29, StepCases
<1>3. QED
  BY <1>1, <1>2, PTL DEF Spec

------------------------------------------------------------------------------
(* The record, the kernel and the course of the daemon.                      *)

Clear(a) == past[a] # "disputed"

\* Where the record and the kernel agree, and how they differ between the two.
RecordInv ==
  \A a \in Addrs : Clear(a) =>
    /\ dpc \notin Between => (who[a] = "emulator" <=> marker = a)
    /\ dpc \in {"forget", "unmark"} => who[a] # "emulator"
    /\ dpc \in {"record", "undo"} => (who[a] = "emulator" <=> dcfg.want = a) /\ marker # a
    /\ dpc \in {"drop", "delete"} /\ owned = a => marker = a

\* What the daemon holds to be on record at each point, disputed or not.
CourseInv ==
  /\ dpc \in {"drop", "delete"} => owned # NoAddr
  /\ dpc \in {"drop", "delete", "forget", "unmark"} => marker \in {NoAddr, owned}
  /\ dpc \in {"probe", "add", "record", "undo"} => marker \in {NoAddr, dcfg.want}
  /\ dpc \in {"record", "undo"} => past[dcfg.want] # "foreign"

\* An address that the emulator has never added is the owner's or nobody's, and not on record.
ForeignInv == \A a \in Addrs : past[a] = "foreign" => who[a] \in {"absent", "user"} /\ marker # a

AddressInv == RecordInv /\ CourseInv /\ ForeignInv

\* Every step keeps the record and the kernel in agreement about every address that
\* is not disputed after it.
LEMMA AddressInvStep == TypeOK /\ AddressInv /\ [Next]_vars => AddressInv'
<1> SUFFICES ASSUME TypeOK, AddressInv, [Next]_vars PROVE AddressInv'
  OBVIOUS
<1> USE AddressConstants
    DEF AddressInv, RecordInv, CourseInv, ForeignInv, Clear, Between, TypeOK, Settings,
        Preparing, Cleaning, apiVars, daemonVars, Fault, Goes, Ends, OwnerMoves
<1>1. CASE Save
  BY <1>1 DEF Save
<1>2. CASE Relinquish
  BY <1>2 DEF Relinquish, GiveUp, Disputes, AtStake, Committed
<1>3. CASE RequestDies
  BY <1>3 DEF RequestDies
<1>4. CASE WorkerStops
  BY <1>4 DEF WorkerStops
<1>5. CASE WorkerSkipsStop
  BY <1>5 DEF WorkerSkipsStop
<1>6. CASE WorkerStarts
  BY <1>6 DEF WorkerStarts
<1>7. CASE DaemonStarts
  BY <1>7 DEF DaemonStarts
<1>8. CASE DaemonObserves
  BY <1>8 DEF DaemonObserves, GiveUp
<1>9. CASE DaemonReadsMarker
  BY <1>9 DEF DaemonReadsMarker
<1>10. CASE DaemonDropsPrevious
  BY <1>10 DEF DaemonDropsPrevious
<1>11. CASE DaemonCannotDrop
  BY <1>11 DEF DaemonCannotDrop, DeleteFails, Disputes
<1>12. CASE DaemonForgetsPrevious
  BY <1>12 DEF DaemonForgetsPrevious
<1>13. CASE DaemonProbes
  BY <1>13 DEF DaemonProbes
<1>14. CASE DaemonCannotProbe
  BY <1>14 DEF DaemonCannotProbe
<1>15. CASE DaemonAdds
  BY <1>15 DEF DaemonAdds
<1>16. CASE DaemonCannotAdd
  BY <1>16 DEF DaemonCannotAdd, AddFails
<1>17. CASE DaemonRecords
  BY <1>17 DEF DaemonRecords
<1>18. CASE DaemonCannotRecord
  BY <1>18 DEF DaemonCannotRecord
<1>19. CASE DaemonUndoes
  BY <1>19 DEF DaemonUndoes, Disputes
<1>20. CASE DaemonLeaves
  BY <1>20 DEF DaemonLeaves
<1>21. CASE DaemonChecksRecord
  BY <1>21 DEF DaemonChecksRecord, MayClean
<1>22. CASE DaemonSkipsCleanup
  BY <1>22 DEF DaemonSkipsCleanup, MayClean
<1>23. CASE DaemonDeletes
  BY <1>23 DEF DaemonDeletes
<1>24. CASE DaemonCannotDelete
  BY <1>24 DEF DaemonCannotDelete, DeleteFails, Disputes
<1>25. CASE DaemonUnmarks
  BY <1>25 DEF DaemonUnmarks
<1>26. CASE DaemonDies
  <2>1. dpc' = "off" /\ UNCHANGED <<marker, who>>
    BY <1>26 DEF DaemonDies
  <2>2. CASE dpc \in Between
    <3>1. Disputes(AtStake)
      BY <1>26, <2>2 DEF DaemonDies
    <3>2. CASE dpc \in {"record", "undo"}
      BY <2>1, <3>1, <3>2 DEF Disputes, AtStake
    <3>3. CASE dpc \in {"forget", "unmark"}
      BY <2>1, <3>1, <3>3 DEF Disputes, AtStake
    <3>4. QED
      BY <2>2, <3>2, <3>3
  <2>3. CASE dpc \notin Between
    BY <1>26, <2>1, <2>3 DEF DaemonDies
  <2>4. QED
    BY <2>2, <2>3
<1>27. ASSUME NEW a \in Addrs, OwnerAdds(a) PROVE AddressInv'
  BY <1>27 DEF OwnerAdds
<1>28. ASSUME NEW a \in Addrs, OwnerRemoves(a) PROVE AddressInv'
  BY <1>28 DEF OwnerRemoves, Disputes
<1>29. CASE UNCHANGED vars
  BY <1>29 DEF vars
<1> QED
  BY <1>1, <1>2, <1>3, <1>4, <1>5, <1>6, <1>7, <1>8, <1>9, <1>10,
     <1>11, <1>12, <1>13, <1>14, <1>15, <1>16, <1>17, <1>18, <1>19, <1>20,
     <1>21, <1>22, <1>23, <1>24, <1>25, <1>26, <1>27, <1>28, <1>29, StepCases

\* The record and the kernel agree in every reachable state.
LEMMA AddressInvariant == Spec => []AddressInv
<1>1. Init => AddressInv
  BY AddressConstants
     DEF Init, AddressInv, RecordInv, CourseInv, ForeignInv, Clear, Between, Settings
<1>2. QED
  BY <1>1, AddressInvStep, TypeCorrect, PTL DEF Spec

\* The record names what the emulator has added and nothing else, except where a
\* death, a failed command, a race or the owner has set the two apart.
THEOREM RecordAgrees == Spec => []RecordMatchesKernel
<1>1. AddressInv => RecordMatchesKernel
  BY DEF AddressInv, RecordInv, Clear, RecordMatchesKernel
<1>2. QED
  BY <1>1, AddressInvariant, PTL

\* The emulator never removes an address of the owner's that is not in dispute, and so
\* none that it has never added itself.
THEOREM OwnersAddressKept == Spec => ConfiguredAddressKept
<1> DEFINE A == \A a \in Addrs : who[a] = "user" /\ who'[a] # "user" /\ past[a] # "disputed" => OwnerRemoves(a)
<1>1. TypeOK /\ AddressInv /\ [Next]_vars => [A]_vars
  <2> SUFFICES ASSUME TypeOK, AddressInv, [Next]_vars PROVE A
    OBVIOUS
  <2> USE AddressConstants
      DEF AddressInv, RecordInv, CourseInv, ForeignInv, Clear, Between, TypeOK, Settings, apiVars, Goes
  <2>1. CASE Save
    BY <2>1 DEF Save
  <2>2. CASE Relinquish
    BY <2>2 DEF Relinquish, GiveUp, Disputes, AtStake, Committed
  <2>3. CASE RequestDies
    BY <2>3 DEF RequestDies
  <2>4. CASE WorkerStops
    BY <2>4 DEF WorkerStops
  <2>5. CASE WorkerSkipsStop
    BY <2>5 DEF WorkerSkipsStop
  <2>6. CASE WorkerStarts
    BY <2>6 DEF WorkerStarts
  <2>7. CASE DaemonStarts
    BY <2>7 DEF DaemonStarts
  <2>8. CASE DaemonObserves
    BY <2>8 DEF DaemonObserves, GiveUp
  <2>9. CASE DaemonReadsMarker
    BY <2>9 DEF DaemonReadsMarker
  <2>10. CASE DaemonDropsPrevious
    BY <2>10 DEF DaemonDropsPrevious
  <2>11. CASE DaemonCannotDrop
    BY <2>11 DEF DaemonCannotDrop, DeleteFails, Disputes
  <2>12. CASE DaemonForgetsPrevious
    BY <2>12 DEF DaemonForgetsPrevious
  <2>13. CASE DaemonProbes
    BY <2>13 DEF DaemonProbes
  <2>14. CASE DaemonCannotProbe
    BY <2>14 DEF DaemonCannotProbe
  <2>15. CASE DaemonAdds
    BY <2>15 DEF DaemonAdds
  <2>16. CASE DaemonCannotAdd
    BY <2>16 DEF DaemonCannotAdd, AddFails
  <2>17. CASE DaemonRecords
    BY <2>17 DEF DaemonRecords
  <2>18. CASE DaemonCannotRecord
    BY <2>18 DEF DaemonCannotRecord
  <2>19. CASE DaemonUndoes
    BY <2>19 DEF DaemonUndoes, Disputes
  <2>20. CASE DaemonLeaves
    BY <2>20 DEF DaemonLeaves
  <2>21. CASE DaemonChecksRecord
    BY <2>21 DEF DaemonChecksRecord, MayClean
  <2>22. CASE DaemonSkipsCleanup
    BY <2>22 DEF DaemonSkipsCleanup, MayClean
  <2>23. CASE DaemonDeletes
    BY <2>23 DEF DaemonDeletes
  <2>24. CASE DaemonCannotDelete
    BY <2>24 DEF DaemonCannotDelete, DeleteFails, Disputes
  <2>25. CASE DaemonUnmarks
    BY <2>25 DEF DaemonUnmarks
  <2>26. CASE DaemonDies
    BY <2>26 DEF DaemonDies, Disputes, AtStake
  <2>27. ASSUME NEW a \in Addrs, OwnerAdds(a) PROVE A
    BY <2>27 DEF OwnerAdds
  <2>28. ASSUME NEW a \in Addrs, OwnerRemoves(a) PROVE A
    BY <2>28 DEF OwnerRemoves, Disputes
  <2>29. CASE UNCHANGED vars
    BY <2>29 DEF vars
  <2> QED
    BY <2>1, <2>2, <2>3, <2>4, <2>5, <2>6, <2>7, <2>8, <2>9, <2>10,
       <2>11, <2>12, <2>13, <2>14, <2>15, <2>16, <2>17, <2>18, <2>19, <2>20,
       <2>21, <2>22, <2>23, <2>24, <2>25, <2>26, <2>27, <2>28, <2>29, StepCases
<1>2. QED
  BY <1>1, AddressInvariant, TypeCorrect, PTL DEF Spec, ConfiguredAddressKept

\* What was given up while no daemon was acting on the record is never removed by one.
THEOREM GivenUpStaysGivenUp == Spec => GivenUpAddressKept
<1> DEFINE A == \A a \in Addrs : who[a] = "kept" /\ who'[a] # "kept" /\ past[a] # "disputed" => OwnerRemoves(a)
<1>1. TypeOK /\ AddressInv /\ [Next]_vars => [A]_vars
  <2> SUFFICES ASSUME TypeOK, AddressInv, [Next]_vars PROVE A
    OBVIOUS
  <2> USE AddressConstants
      DEF AddressInv, RecordInv, CourseInv, ForeignInv, Clear, Between, TypeOK, Settings, apiVars, Goes
  <2>1. CASE Save
    BY <2>1 DEF Save
  <2>2. CASE Relinquish
    BY <2>2 DEF Relinquish, GiveUp, Disputes, AtStake, Committed
  <2>3. CASE RequestDies
    BY <2>3 DEF RequestDies
  <2>4. CASE WorkerStops
    BY <2>4 DEF WorkerStops
  <2>5. CASE WorkerSkipsStop
    BY <2>5 DEF WorkerSkipsStop
  <2>6. CASE WorkerStarts
    BY <2>6 DEF WorkerStarts
  <2>7. CASE DaemonStarts
    BY <2>7 DEF DaemonStarts
  <2>8. CASE DaemonObserves
    BY <2>8 DEF DaemonObserves, GiveUp
  <2>9. CASE DaemonReadsMarker
    BY <2>9 DEF DaemonReadsMarker
  <2>10. CASE DaemonDropsPrevious
    BY <2>10 DEF DaemonDropsPrevious
  <2>11. CASE DaemonCannotDrop
    BY <2>11 DEF DaemonCannotDrop, DeleteFails, Disputes
  <2>12. CASE DaemonForgetsPrevious
    BY <2>12 DEF DaemonForgetsPrevious
  <2>13. CASE DaemonProbes
    BY <2>13 DEF DaemonProbes
  <2>14. CASE DaemonCannotProbe
    BY <2>14 DEF DaemonCannotProbe
  <2>15. CASE DaemonAdds
    BY <2>15 DEF DaemonAdds
  <2>16. CASE DaemonCannotAdd
    BY <2>16 DEF DaemonCannotAdd, AddFails
  <2>17. CASE DaemonRecords
    BY <2>17 DEF DaemonRecords
  <2>18. CASE DaemonCannotRecord
    BY <2>18 DEF DaemonCannotRecord
  <2>19. CASE DaemonUndoes
    BY <2>19 DEF DaemonUndoes, Disputes
  <2>20. CASE DaemonLeaves
    BY <2>20 DEF DaemonLeaves
  <2>21. CASE DaemonChecksRecord
    BY <2>21 DEF DaemonChecksRecord, MayClean
  <2>22. CASE DaemonSkipsCleanup
    BY <2>22 DEF DaemonSkipsCleanup, MayClean
  <2>23. CASE DaemonDeletes
    BY <2>23 DEF DaemonDeletes
  <2>24. CASE DaemonCannotDelete
    BY <2>24 DEF DaemonCannotDelete, DeleteFails, Disputes
  <2>25. CASE DaemonUnmarks
    BY <2>25 DEF DaemonUnmarks
  <2>26. CASE DaemonDies
    BY <2>26 DEF DaemonDies, Disputes, AtStake
  <2>27. ASSUME NEW a \in Addrs, OwnerAdds(a) PROVE A
    BY <2>27 DEF OwnerAdds
  <2>28. ASSUME NEW a \in Addrs, OwnerRemoves(a) PROVE A
    BY <2>28 DEF OwnerRemoves, Disputes
  <2>29. CASE UNCHANGED vars
    BY <2>29 DEF vars
  <2> QED
    BY <2>1, <2>2, <2>3, <2>4, <2>5, <2>6, <2>7, <2>8, <2>9, <2>10,
       <2>11, <2>12, <2>13, <2>14, <2>15, <2>16, <2>17, <2>18, <2>19, <2>20,
       <2>21, <2>22, <2>23, <2>24, <2>25, <2>26, <2>27, <2>28, <2>29, StepCases
<1>2. QED
  BY <1>1, AddressInvariant, TypeCorrect, PTL DEF Spec, GivenUpAddressKept

------------------------------------------------------------------------------
(* The cleanup: a daemon in its main loop knows the address that is on record. *)

CleanupInv ==
  /\ config.remove => config.manage
  /\ dcfg.remove => dcfg.manage
  /\ dpc \in {"probe", "add"} => marker \in {NoAddr, owned}
  /\ dpc \in {"run", "exit"} /\ dcfg.manage /\ Clear(dcfg.want) /\ who[dcfg.want] = "emulator" =>
       owned = dcfg.want

\* A daemon gets to its main loop only with the address that it has found on record
\* or has recorded, and keeps it until its cleanup.
LEMMA CleanupInvStep == TypeOK /\ AddressInv /\ CleanupInv /\ [Next]_vars => CleanupInv'
<1> SUFFICES ASSUME TypeOK, AddressInv, CleanupInv, [Next]_vars PROVE CleanupInv'
  OBVIOUS
<1> USE AddressConstants
    DEF AddressInv, RecordInv, CourseInv, ForeignInv, Clear, Between, CleanupInv, TypeOK, Settings,
        Preparing, Cleaning, apiVars, daemonVars, Goes, Ends
<1>1. CASE Save
  BY <1>1 DEF Save
<1>2. CASE Relinquish
  BY <1>2 DEF Relinquish, GiveUp, Disputes, AtStake, Committed
<1>3. CASE RequestDies
  BY <1>3 DEF RequestDies
<1>4. CASE WorkerStops
  BY <1>4 DEF WorkerStops
<1>5. CASE WorkerSkipsStop
  BY <1>5 DEF WorkerSkipsStop
<1>6. CASE WorkerStarts
  BY <1>6 DEF WorkerStarts
<1>7. CASE DaemonStarts
  BY <1>7 DEF DaemonStarts
<1>8. CASE DaemonObserves
  BY <1>8 DEF DaemonObserves, GiveUp
<1>9. CASE DaemonReadsMarker
  BY <1>9 DEF DaemonReadsMarker
<1>10. CASE DaemonDropsPrevious
  BY <1>10 DEF DaemonDropsPrevious
<1>11. CASE DaemonCannotDrop
  BY <1>11 DEF DaemonCannotDrop, DeleteFails, Disputes
<1>12. CASE DaemonForgetsPrevious
  BY <1>12 DEF DaemonForgetsPrevious
<1>13. CASE DaemonProbes
  BY <1>13 DEF DaemonProbes
<1>14. CASE DaemonCannotProbe
  BY <1>14 DEF DaemonCannotProbe
<1>15. CASE DaemonAdds
  BY <1>15 DEF DaemonAdds
<1>16. CASE DaemonCannotAdd
  BY <1>16 DEF DaemonCannotAdd, AddFails
<1>17. CASE DaemonRecords
  BY <1>17 DEF DaemonRecords
<1>18. CASE DaemonCannotRecord
  BY <1>18 DEF DaemonCannotRecord
<1>19. CASE DaemonUndoes
  BY <1>19 DEF DaemonUndoes, Disputes
<1>20. CASE DaemonLeaves
  BY <1>20 DEF DaemonLeaves
<1>21. CASE DaemonChecksRecord
  BY <1>21 DEF DaemonChecksRecord, MayClean
<1>22. CASE DaemonSkipsCleanup
  BY <1>22 DEF DaemonSkipsCleanup, MayClean
<1>23. CASE DaemonDeletes
  BY <1>23 DEF DaemonDeletes
<1>24. CASE DaemonCannotDelete
  BY <1>24 DEF DaemonCannotDelete, DeleteFails, Disputes
<1>25. CASE DaemonUnmarks
  BY <1>25 DEF DaemonUnmarks
<1>26. CASE DaemonDies
  BY <1>26 DEF DaemonDies, Disputes, AtStake
<1>27. ASSUME NEW a \in Addrs, OwnerAdds(a) PROVE CleanupInv'
  BY <1>27 DEF OwnerAdds
<1>28. ASSUME NEW a \in Addrs, OwnerRemoves(a) PROVE CleanupInv'
  BY <1>28 DEF OwnerRemoves, Disputes
<1>29. CASE UNCHANGED vars
  BY <1>29 DEF vars
<1> QED
  BY <1>1, <1>2, <1>3, <1>4, <1>5, <1>6, <1>7, <1>8, <1>9, <1>10,
     <1>11, <1>12, <1>13, <1>14, <1>15, <1>16, <1>17, <1>18, <1>19, <1>20,
     <1>21, <1>22, <1>23, <1>24, <1>25, <1>26, <1>27, <1>28, <1>29, StepCases

\* A clean exit that is to remove the address leaves none of the emulator's behind,
\* unless that address is in dispute.
THEOREM CleanExitRemoves == Spec => CleanExitRemovesAddress
<1> DEFINE A == (DaemonSkipsCleanup \/ DaemonUnmarks) /\ dcfg.remove /\ past[dcfg.want] # "disputed" =>
                  who'[dcfg.want] # "emulator"
<1>1. Init => CleanupInv
  BY DEF Init, CleanupInv, Settings
<1>2. Spec => []CleanupInv
  BY <1>1, CleanupInvStep, AddressInvariant, TypeCorrect, PTL DEF Spec
<1>3. TypeOK /\ AddressInv /\ CleanupInv => A
  <2> SUFFICES ASSUME TypeOK, AddressInv, CleanupInv, DaemonSkipsCleanup \/ DaemonUnmarks,
                      dcfg.remove, past[dcfg.want] # "disputed"
               PROVE  who'[dcfg.want] # "emulator"
    OBVIOUS
  <2> USE AddressConstants
      DEF AddressInv, RecordInv, Clear, Between, CleanupInv, TypeOK, Settings
  <2>1. CASE DaemonSkipsCleanup
    BY <2>1 DEF DaemonSkipsCleanup, MayClean
  <2>2. CASE DaemonUnmarks
    BY <2>2 DEF DaemonUnmarks
  <2>3. QED
    BY <2>1, <2>2
<1>4. QED
  BY <1>2, <1>3, AddressInvariant, TypeCorrect, PTL DEF CleanExitRemovesAddress
==============================================================================
