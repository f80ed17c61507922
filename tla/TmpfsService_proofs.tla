------------------------ MODULE TmpfsService_proofs -------------------------
(***************************************************************************)
(* Theorems about TmpfsService, for every value of its constants.          *)
(***************************************************************************)
EXTENDS TmpfsInvariants, TLAPS

USE DEF vars, trees, mounts, status, cursor, history, conf, outside

\* The state the machine boots with is well typed.
LEMMA TypeInit == Init => TypeInv
<1> SUFFICES ASSUME Init PROVE TypeInv
  OBVIOUS
<1>1. moved \in BOOLEAN /\ overlay \in BOOLEAN
  BY DEF Init
<1>2. latest \in Tree /\ disk \in Tree \cup {NoTree}
  BY DEF Init, Tree, EmptyTree
<1>3. QED
  BY <1>1, <1>2, TmpfsAssumption DEF Init, TypeInv, TypeOK, TreesExist, View

\* A reboot leaves a well-typed state.
LEMMA RebootType == TypeInv /\ RebootEffect => TypeInv'
<1> SUFFICES ASSUME TypeInv, RebootEffect PROVE TypeInv'
  OBVIOUS
<1> USE TmpfsAssumption DEF TypeInv, TypeOK, TreesExist
<1>1. moved' \in BOOLEAN /\ overlay' \in BOOLEAN
  BY Zenon DEF RebootEffect
<1>2. latest' \in Tree /\ target' \in Tree
  BY DEF RebootEffect
<1>3. QED
  BY <1>1, <1>2 DEF RebootEffect, View

\* Every step keeps the types, and the directories a copy works on.
LEMMA TypeStep == TypeInv /\ [Next]_vars => TypeInv'
<1> SUFFICES ASSUME TypeInv, [Next]_vars PROVE TypeInv'
  OBVIOUS
<1> USE TmpfsAssumption DEF TypeInv, TypeOK, TreesExist
<1>1. CASE Fstab
  <2>1. overlay' \in BOOLEAN
    BY <1>1, Zenon DEF Fstab
  <2>2. QED
    BY <1>1, <2>1 DEF Fstab, At, Goto, Exit, View, Fault
<1>2. CASE Conf
  BY <1>2 DEF Conf, At, Goto, Exit, View, SaveSvc
<1>3. CASE Mirror
  BY <1>3 DEF Mirror, At, Goto, View, EmptyTree, Tree
<1>4. CASE MirrorEnd
  BY <1>4 DEF MirrorEnd, At, Goto, View, Tree
<1>5. CASE Bind
  BY <1>5 DEF Bind, At, Goto, View
<1>6. CASE Hangup
  BY <1>6 DEF Hangup, At, Goto, View, Holders
<1>7. CASE Umount
  BY <1>7 DEF Umount, At, Goto, CanUmount
<1>8. CASE KillRound
  BY <1>8 DEF KillRound, At, Holders
<1>9. CASE KillEnd
  BY <1>9 DEF KillEnd, At, Goto
<1>10. CASE UmountAgain
  BY <1>10 DEF UmountAgain, At, Goto, CanUmount
<1>11. CASE Restore
  BY <1>11 DEF Restore, At, Goto
<1>12. CASE RestoreEnd
  BY <1>12 DEF RestoreEnd, At, Goto, EmptyTree, Tree, Landing
<1>13. CASE PutBack
  BY <1>13 DEF PutBack, At, Goto
<1>14. CASE BindTmp
  BY <1>14 DEF BindTmp, At, Goto, Exit
<1>15. CASE Svc
  BY <1>15 DEF Svc, At, Goto, Exit
<1>16. CASE SysRq
  <2>1. ASSUME RebootEffect PROVE TypeInv'
    BY <2>1, RebootType
  <2>2. QED
    BY <1>16, <2>1 DEF SysRq, At, Goto, View
<1>17. CASE Return
  BY <1>17 DEF Return, At
<1>18. ASSUME NEW f \in Files, MirrorFile(f) PROVE TypeInv'
  BY <1>18 DEF MirrorFile, At, View, Tree
<1>19. ASSUME NEW f \in Files, RestoreFile(f) PROVE TypeInv'
  BY <1>19 DEF RestoreFile, At, View, Tree, EmptyTree
<1>20. CASE Reboot
  BY <1>20, RebootType DEF Reboot
<1>21. CASE ChangePhase
  BY <1>21 DEF ChangePhase, View
<1>22. ASSUME NEW d \in DebugModes, NEW s \in SvcModes, EditConf(d, s)
       PROVE TypeInv'
  BY <1>22 DEF EditConf, View
<1>23. ASSUME NEW w \in Writers, Open(w) \/ Close(w) PROVE TypeInv'
  BY <1>23 DEF Open, Close, View, Where
<1>24. ASSUME NEW w \in Writers, NEW f \in Files, Write(w, f) PROVE TypeInv'
  BY <1>24 DEF Write, View, Tree
<1>25. ASSUME NEW c \in Commands, Begin(c) PROVE TypeInv'
  <2>1. moved' \in BOOLEAN
    BY <1>25, Zenon DEF Begin
  <2>2. QED
    BY <1>25, <2>1 DEF Begin, View
<1>26. CASE UNCHANGED vars
  BY <1>26 DEF View
<1>27. QED
  BY <1>1, <1>2, <1>3, <1>4, <1>5, <1>6, <1>7, <1>8, <1>9, <1>10, <1>11,
     <1>12, <1>13, <1>14, <1>15, <1>16, <1>17, <1>18, <1>19, <1>20, <1>21,
     <1>22, <1>23, <1>24, <1>25, <1>26 DEF Next, Step, Environment

\* The variables keep their types, and no step of a copy works on a
\* directory that is missing: for every set of files, daemons, tools, faults
\* and commands.
THEOREM TypeCorrect == Spec => []TypeOK
<1>1. TypeInv => TypeOK
  BY DEF TypeInv
<1>2. QED
  BY <1>1, TypeInit, TypeStep, PTL DEF Spec

-----------------------------------------------------------------------------
\* The first state satisfies the inductive invariant.
LEMMA SafetyInit == SafeConfig /\ Init => SafetyInv
<1> SUFFICES ASSUME SafeConfig, Init PROVE SafetyInv
  OBVIOUS
<1>1. TypeInv
  BY TypeInit
<1>a. [f \in Files |-> 1] # NoTree
  BY TmpfsAssumption DEF Tree
<1>2. disk = [f \in Files |-> 1] /\ latest = disk /\ target = disk /\ promised = disk
  BY <1>a, TmpfsAssumption DEF Init, SafeConfig, Fault
<1>3. StepsOfCommands
  BY DEF Init, StepsOfCommands
<1>4. MountsMatch
  BY DEF Init, MountsMatch, Holders
<1>b. op = "none" /\ pc = "idle" /\ depth = 0 /\ clock = 1
  BY DEF Init
<1>5. LatestIn
  BY <1>2, <1>b DEF LatestIn, SameOn
<1>6. Ordered
  BY <1>a, <1>2, <1>b DEF Ordered, Mirrored
<1>7. PromiseGrows
  BY <1>b DEF PromiseGrows
<1>8. QED
  BY <1>1, <1>3, <1>4, <1>5, <1>6, <1>7 DEF SafetyInv

\* Every step of every command, daemon and reboot keeps the inductive
\* invariant: the faults SafeConfig allows never make one tree stand for
\* another.
LEMMA SafetyStep == SafeConfig /\ SafetyInv /\ [Next]_vars => SafetyInv'
<1> SUFFICES ASSUME SafeConfig, SafetyInv, [Next]_vars PROVE SafetyInv'
  OBVIOUS
<1>0. TypeInv /\ TypeInv'
  BY TypeStep DEF SafetyInv
<1> USE <1>0, TmpfsAssumption
    DEF SafeConfig, SafetyInv, TypeInv, TypeOK, TreesExist, StepsOfCommands, MountsMatch,
        LatestIn, Ordered, PromiseGrows, SameOn,
        Mirrored, Tree
<1>1. CASE Fstab
  <2>1. StepsOfCommands'
    BY <1>1 DEF Fstab, At, Goto, Exit
  <2>2. MountsMatch'
    BY <1>1 DEF Fstab, At, Goto, Exit
  <2>3. LatestIn'
    BY <1>1 DEF Fstab, At, Goto, Exit
  <2>4. Ordered'
    BY <1>1 DEF Fstab, At, Goto, Exit
  <2>5. PromiseGrows'
    BY <1>1 DEF Fstab, At, Goto, Exit
  <2>6. QED
    BY <2>1, <2>2, <2>3, <2>4, <2>5
<1>2. CASE Conf
  <2>1. StepsOfCommands'
    BY <1>2 DEF Conf, At, Goto, Exit, SaveSvc, View, Mounted
  <2>2. MountsMatch'
    BY <1>2 DEF Conf, At, Goto, Exit, SaveSvc, View, Mounted
  <2>3. LatestIn'
    BY <1>2 DEF Conf, At, Goto, Exit, SaveSvc, View, Mounted
  <2>4. Ordered'
    BY <1>2 DEF Conf, At, Goto, Exit, SaveSvc, View, Mounted
  <2>5. PromiseGrows'
    BY <1>2 DEF Conf, At, Goto, Exit, SaveSvc, View, Mounted
  <2>6. QED
    BY <2>1, <2>2, <2>3, <2>4, <2>5
<1>3. CASE Mirror
  <2>1. StepsOfCommands'
    BY <1>3 DEF Mirror, At, Goto, Rsync
  <2>2. MountsMatch'
    BY <1>3 DEF Mirror, At, Goto, Rsync
  <2>3. LatestIn'
    BY <1>3 DEF Mirror, At, Goto, Rsync
  <2>4. Ordered'
    BY <1>3 DEF Mirror, At, Goto, Rsync
  <2>5. PromiseGrows'
    BY <1>3 DEF Mirror, At, Goto, Rsync
  <2>6. QED
    BY <2>1, <2>2, <2>3, <2>4, <2>5
<1>4. CASE MirrorEnd
  <2>1. StepsOfCommands'
    BY <1>4 DEF MirrorEnd, At, Goto, Rsync
  <2>2. MountsMatch'
    BY <1>4 DEF MirrorEnd, At, Goto, Rsync
  <2>3. LatestIn'
    <3>1. CASE todo = {} /\ code' = 0 /\ Goto("bind")
      <4>1. Mirrored \ todo = Mirrored
        BY <3>1
      <4>2. SameOn(Mirrored, ram, disk)
        BY <1>4, <4>1 DEF MirrorEnd, At
      <4>3. QED
        BY <1>4, <3>1, <4>2 DEF MirrorEnd, At, Goto, Rsync
    <3>2. CASE code' = 1 /\ Goto("svc")
      BY <1>4, <3>2 DEF MirrorEnd, At, Goto, Rsync
    <3>3. QED
      BY <1>4, <3>1, <3>2 DEF MirrorEnd
  <2>4. Ordered'
    BY <1>4 DEF MirrorEnd, At, Goto, Rsync
  <2>5. PromiseGrows'
    BY <1>4 DEF MirrorEnd, At, Goto, Rsync
  <2>6. QED
    BY <2>1, <2>2, <2>3, <2>4, <2>5
<1>5. CASE Bind
  <2>1. StepsOfCommands'
    BY <1>5 DEF Bind, At, Goto
  <2>2. MountsMatch'
    BY <1>5 DEF Bind, At, Goto
  <2>3. LatestIn'
    BY <1>5 DEF Bind, At, Goto
  <2>4. Ordered'
    BY <1>5 DEF Bind, At, Goto
  <2>5. PromiseGrows'
    BY <1>5 DEF Bind, At, Goto
  <2>6. QED
    BY <2>1, <2>2, <2>3, <2>4, <2>5
<1>6. CASE Hangup
  <2>1. StepsOfCommands'
    BY <1>6 DEF Hangup, At, Goto, Holders
  <2>2. MountsMatch'
    BY <1>6 DEF Hangup, At, Goto, Holders
  <2>3. LatestIn'
    BY <1>6 DEF Hangup, At, Goto, Holders
  <2>4. Ordered'
    BY <1>6 DEF Hangup, At, Goto, Holders
  <2>5. PromiseGrows'
    BY <1>6 DEF Hangup, At, Goto, Holders
  <2>6. QED
    BY <2>1, <2>2, <2>3, <2>4, <2>5
<1>7. CASE Umount
  <2>1. StepsOfCommands'
    BY <1>7 DEF Umount, At, Goto, CanUmount, Mounted, Holders
  <2>2. MountsMatch'
    BY <1>7 DEF Umount, At, Goto, CanUmount, Mounted, Holders
  <2>3. LatestIn'
    BY <1>7 DEF Umount, At, Goto, CanUmount, Mounted, Holders
  <2>4. Ordered'
    BY <1>7 DEF Umount, At, Goto, CanUmount, Mounted, Holders
  <2>5. PromiseGrows'
    BY <1>7 DEF Umount, At, Goto, CanUmount, Mounted, Holders
  <2>6. QED
    BY <2>1, <2>2, <2>3, <2>4, <2>5
<1>8. CASE KillRound
  <2>1. StepsOfCommands'
    BY <1>8 DEF KillRound, At, Holders, Fault
  <2>2. MountsMatch'
    BY <1>8 DEF KillRound, At, Holders, Fault
  <2>3. LatestIn'
    BY <1>8 DEF KillRound, At, Holders, Fault
  <2>4. Ordered'
    BY <1>8 DEF KillRound, At, Holders, Fault
  <2>5. PromiseGrows'
    BY <1>8 DEF KillRound, At, Holders, Fault
  <2>6. QED
    BY <2>1, <2>2, <2>3, <2>4, <2>5
<1>9. CASE KillEnd
  <2>1. StepsOfCommands'
    BY <1>9 DEF KillEnd, At, Goto, Holders
  <2>2. MountsMatch'
    BY <1>9 DEF KillEnd, At, Goto, Holders
  <2>3. LatestIn'
    BY <1>9 DEF KillEnd, At, Goto, Holders
  <2>4. Ordered'
    BY <1>9 DEF KillEnd, At, Goto, Holders
  <2>5. PromiseGrows'
    BY <1>9 DEF KillEnd, At, Goto, Holders
  <2>6. QED
    BY <2>1, <2>2, <2>3, <2>4, <2>5
<1>10. CASE UmountAgain
  <2>1. StepsOfCommands'
    BY <1>10 DEF UmountAgain, At, Goto, CanUmount, Holders, Fault, Mounted
  <2>2. MountsMatch'
    BY <1>10 DEF UmountAgain, At, Goto, CanUmount, Holders, Fault, Mounted
  <2>3. LatestIn'
    BY <1>10 DEF UmountAgain, At, Goto, CanUmount, Holders, Fault, Mounted
  <2>4. Ordered'
    BY <1>10 DEF UmountAgain, At, Goto, CanUmount, Holders, Fault, Mounted
  <2>5. PromiseGrows'
    BY <1>10 DEF UmountAgain, At, Goto, CanUmount, Holders, Fault, Mounted
  <2>6. QED
    BY <2>1, <2>2, <2>3, <2>4, <2>5
<1>11. CASE Restore
  <2>1. StepsOfCommands'
    BY <1>11 DEF Restore, At, Goto, Rsync, Landing
  <2>2. MountsMatch'
    BY <1>11 DEF Restore, At, Goto, Rsync, Landing
  <2>3. LatestIn'
    BY <1>11 DEF Restore, At, Goto, Rsync, Landing
  <2>4. Ordered'
    BY <1>11 DEF Restore, At, Goto, Rsync, Landing
  <2>5. PromiseGrows'
    BY <1>11 DEF Restore, At, Goto, Rsync, Landing
  <2>6. QED
    BY <2>1, <2>2, <2>3, <2>4, <2>5
<1>12. CASE RestoreEnd
  <2>1. StepsOfCommands'
    BY <1>12 DEF RestoreEnd, At, Goto, Rsync, CopyFault, IntoItself, Landing, Fault
  <2>2. MountsMatch'
    BY <1>12 DEF RestoreEnd, At, Goto, Rsync, CopyFault, IntoItself, Landing, Fault
  <2>3. LatestIn'
    BY <1>12 DEF RestoreEnd, At, Goto, Rsync, CopyFault, IntoItself, Landing, Fault
  <2>4. Ordered'
    BY <1>12 DEF RestoreEnd, At, Goto, Rsync, CopyFault, IntoItself, Landing, Fault
  <2>5. PromiseGrows'
    BY <1>12 DEF RestoreEnd, At, Goto, Rsync, CopyFault, IntoItself, Landing, Fault
  <2>6. QED
    BY <2>1, <2>2, <2>3, <2>4, <2>5
<1>13. CASE PutBack
  <2>1. StepsOfCommands'
    BY <1>13 DEF PutBack, At
  <2>2. MountsMatch'
    BY <1>13 DEF PutBack, At
  <2>3. LatestIn'
    BY <1>13 DEF PutBack, At
  <2>4. Ordered'
    BY <1>13 DEF PutBack, At
  <2>5. PromiseGrows'
    BY <1>13 DEF PutBack, At
  <2>6. QED
    BY <2>1, <2>2, <2>3, <2>4, <2>5
<1>14. CASE BindTmp
  <2>1. StepsOfCommands'
    BY <1>14 DEF BindTmp, At, Goto, Exit, Fault
  <2>2. MountsMatch'
    BY <1>14 DEF BindTmp, At, Goto, Exit, Fault
  <2>3. LatestIn'
    BY <1>14 DEF BindTmp, At, Goto, Exit, Fault
  <2>4. Ordered'
    BY <1>14 DEF BindTmp, At, Goto, Exit, Fault
  <2>5. PromiseGrows'
    BY <1>14 DEF BindTmp, At, Goto, Exit, Fault
  <2>6. QED
    BY <2>1, <2>2, <2>3, <2>4, <2>5
<1>15. CASE Svc
  <2>1. StepsOfCommands'
    BY <1>15 DEF Svc, At, Goto, Exit
  <2>2. MountsMatch'
    BY <1>15 DEF Svc, At, Goto, Exit
  <2>3. LatestIn'
    BY <1>15 DEF Svc, At, Goto, Exit
  <2>4. Ordered'
    BY <1>15 DEF Svc, At, Goto, Exit
  <2>5. PromiseGrows'
    BY <1>15 DEF Svc, At, Goto, Exit
  <2>6. QED
    BY <2>1, <2>2, <2>3, <2>4, <2>5
<1>16. CASE SysRq
  <2>1. StepsOfCommands'
    BY <1>16 DEF SysRq, RebootEffect, At, Goto
  <2>2. MountsMatch'
    BY <1>16 DEF SysRq, RebootEffect, At, Goto
  <2>3. LatestIn'
    BY <1>16 DEF SysRq, RebootEffect, At, Goto
  <2>4. Ordered'
    BY <1>16 DEF SysRq, RebootEffect, At, Goto
  <2>5. PromiseGrows'
    BY <1>16 DEF SysRq, RebootEffect, At, Goto
  <2>6. QED
    BY <2>1, <2>2, <2>3, <2>4, <2>5
<1>17. CASE Return
  <2>1. StepsOfCommands'
    BY <1>17 DEF Return, At
  <2>2. MountsMatch'
    BY <1>17 DEF Return, At
  <2>3. LatestIn'
    BY <1>17 DEF Return, At
  <2>4. Ordered'
    BY <1>17 DEF Return, At
  <2>5. PromiseGrows'
    BY <1>17 DEF Return, At
  <2>6. QED
    BY <2>1, <2>2, <2>3, <2>4, <2>5
<1>18. ASSUME NEW f \in Files, MirrorFile(f) PROVE SafetyInv'
  <2>1. StepsOfCommands'
    BY <1>18 DEF MirrorFile, At, View
  <2>2. MountsMatch'
    BY <1>18 DEF MirrorFile, At, View
  <2>a. depth = 0 /\ ram \in Tree /\ disk \in Tree
    BY <1>18 DEF MirrorFile, At, View
  <2>b. SameOn(Mirrored \ todo', ram', disk')
    BY <1>18, <2>a DEF MirrorFile, At, View
  <2>c. rc # "started"
    BY <1>18 DEF MirrorFile, At
  <2>3. LatestIn'
    BY <1>18, <2>a, <2>b, <2>c DEF MirrorFile, At
  <2>4. Ordered'
    BY <1>18 DEF MirrorFile, At, View
  <2>5. PromiseGrows'
    BY <1>18 DEF MirrorFile, At, View
  <2>6. QED
    BY <2>1, <2>2, <2>3, <2>4, <2>5
<1>19. ASSUME NEW f \in Files, RestoreFile(f) PROVE SafetyInv'
  <2>1. StepsOfCommands'
    BY <1>19 DEF RestoreFile, At
  <2>2. MountsMatch'
    BY <1>19 DEF RestoreFile, At
  <2>3. LatestIn'
    BY <1>19 DEF RestoreFile, At
  <2>4. Ordered'
    BY <1>19 DEF RestoreFile, At
  <2>5. PromiseGrows'
    BY <1>19 DEF RestoreFile, At
  <2>6. QED
    BY <2>1, <2>2, <2>3, <2>4, <2>5
<1>20. CASE Reboot
  <2>1. StepsOfCommands'
    BY <1>20 DEF Reboot, RebootEffect
  <2>2. MountsMatch'
    BY <1>20 DEF Reboot, RebootEffect
  <2>3. LatestIn'
    BY <1>20 DEF Reboot, RebootEffect
  <2>4. Ordered'
    BY <1>20 DEF Reboot, RebootEffect
  <2>5. PromiseGrows'
    BY <1>20 DEF Reboot, RebootEffect
  <2>6. QED
    BY <2>1, <2>2, <2>3, <2>4, <2>5
<1>21. CASE ChangePhase
  <2>1. StepsOfCommands'
    BY <1>21 DEF ChangePhase
  <2>2. MountsMatch'
    BY <1>21 DEF ChangePhase
  <2>3. LatestIn'
    BY <1>21 DEF ChangePhase
  <2>4. Ordered'
    BY <1>21 DEF ChangePhase
  <2>5. PromiseGrows'
    BY <1>21 DEF ChangePhase
  <2>6. QED
    BY <2>1, <2>2, <2>3, <2>4, <2>5
<1>22. ASSUME NEW d \in DebugModes, NEW s \in SvcModes, EditConf(d, s) PROVE SafetyInv'
  <2>1. StepsOfCommands'
    BY <1>22 DEF EditConf
  <2>2. MountsMatch'
    BY <1>22 DEF EditConf
  <2>3. LatestIn'
    BY <1>22 DEF EditConf
  <2>4. Ordered'
    BY <1>22 DEF EditConf
  <2>5. PromiseGrows'
    BY <1>22 DEF EditConf
  <2>6. QED
    BY <2>1, <2>2, <2>3, <2>4, <2>5
<1>23. ASSUME NEW w \in Writers, Open(w) \/ Close(w) PROVE SafetyInv'
  <2>1. StepsOfCommands'
    BY <1>23 DEF Open, Close, Where, Holders
  <2>2. MountsMatch'
    BY <1>23 DEF Open, Close, Where, Holders
  <2>3. LatestIn'
    BY <1>23 DEF Open, Close, Where, Holders
  <2>4. Ordered'
    BY <1>23 DEF Open, Close, Where, Holders
  <2>5. PromiseGrows'
    BY <1>23 DEF Open, Close, Where, Holders
  <2>6. QED
    BY <2>1, <2>2, <2>3, <2>4, <2>5
<1>24. ASSUME NEW w \in Writers, NEW f \in Files, Write(w, f) PROVE SafetyInv'
  <2>1. StepsOfCommands'
    BY <1>24 DEF Write
  <2>a. ram # NoTree => ram' \in Tree
    BY <1>24 DEF Write
  <2>b. ram' \in Tree => ram' # NoTree
    BY TmpfsAssumption
  <2>2. MountsMatch'
    BY <1>24, <2>a, <2>b DEF Write, Holders
  <2>3. LatestIn'
    BY <1>24 DEF Write
  <2>4. Ordered'
    BY <1>24 DEF Write
  <2>5. PromiseGrows'
    BY <1>24 DEF Write
  <2>6. QED
    BY <2>1, <2>2, <2>3, <2>4, <2>5
<1>25. ASSUME NEW c \in Commands, Begin(c) PROVE SafetyInv'
  <2>1. StepsOfCommands'
    BY <1>25 DEF Begin, InOrder
  <2>2. MountsMatch'
    BY <1>25 DEF Begin, InOrder
  <2>3. LatestIn'
    BY <1>25 DEF Begin, InOrder
  <2>4. Ordered'
    BY <1>25 DEF Begin, InOrder
  <2>5. PromiseGrows'
    BY <1>25 DEF Begin, InOrder
  <2>6. QED
    BY <2>1, <2>2, <2>3, <2>4, <2>5
<1>26. CASE UNCHANGED vars
  <2>1. StepsOfCommands'
    BY <1>26 DEF Holders
  <2>2. MountsMatch'
    BY <1>26 DEF Holders
  <2>3. LatestIn'
    BY <1>26 DEF Holders
  <2>4. Ordered'
    BY <1>26 DEF Holders
  <2>5. PromiseGrows'
    BY <1>26 DEF Holders
  <2>6. QED
    BY <2>1, <2>2, <2>3, <2>4, <2>5
<1> HIDE TmpfsAssumption
    DEF SafeConfig, SafetyInv, TypeInv, TypeOK, TreesExist, StepsOfCommands, MountsMatch,
        LatestIn, Ordered, PromiseGrows, SameOn,
        Mirrored, Tree
<1>27. CASE Step
  BY <1>1, <1>2, <1>3, <1>4, <1>5, <1>6, <1>7, <1>8, <1>9, <1>10, <1>11, <1>12, <1>13,
     <1>14, <1>15, <1>16, <1>17, <1>18, <1>19, <1>27 DEF Step
<1>28. CASE Environment
  BY <1>20, <1>21, <1>22, <1>23, <1>24, <1>28 DEF Environment
<1>29. QED
  BY <1>25, <1>26, <1>27, <1>28 DEF Next

-----------------------------------------------------------------------------
\* Under SafeConfig the disk alone always holds every update it was promised
\* to hold, whichever mounts, mirrors and copies fail and whenever the
\* machine restarts.
THEOREM NoRollbackHolds == SafeConfig => (Spec => []NoRollback)
<1> SUFFICES ASSUME SafeConfig PROVE Spec => []NoRollback
  OBVIOUS
<1>1. Init => SafetyInv
  BY SafetyInit
<1>2. SafetyInv /\ [Next]_vars => SafetyInv'
  BY SafetyStep
<1>3. SafetyInv => NoRollback
  BY DEF SafetyInv, Ordered, NoRollback, Keeps, Mirrored
<1>4. QED
  BY <1>1, <1>2, <1>3, PTL DEF Spec

\* Under SafeConfig the daemons' path leads to the last update of every
\* mirrored file between any two commands, or the mirror still has it and
\* OpenRC still says started.
THEOREM NothingHiddenHolds == SafeConfig => (Spec => []NothingHidden)
<1> SUFFICES ASSUME SafeConfig PROVE Spec => []NothingHidden
  OBVIOUS
<1>1. Init => SafetyInv
  BY SafetyInit
<1>2. SafetyInv /\ [Next]_vars => SafetyInv'
  BY SafetyStep
<1>3. SafetyInv => NothingHidden
  <2> SUFFICES ASSUME SafetyInv PROVE NothingHidden
    OBVIOUS
  <2> USE DEF SafetyInv, TypeInv, TypeOK, MountsMatch, LatestIn, Ordered, SameOn
  <2>1. ASSUME NEW tree \in Tree, SameOn(Mirrored, tree, latest) PROVE Keeps(tree, latest)
    BY <2>1, TmpfsAssumption DEF Keeps, Mirrored, Tree
  <2>2. CASE depth = 1
    BY <2>1, <2>2 DEF NothingHidden, View
  <2>3. CASE depth = 0
    BY <2>1, <2>3 DEF NothingHidden, View
  <2>4. QED
    BY <2>2, <2>3
<1>4. QED
  BY <1>1, <1>2, <1>3, PTL DEF Spec

-----------------------------------------------------------------------------
(* The refinement.  OfMirrored forgets the excluded files; a step on one   *)
(* of those, or on the mirror alone, changes nothing of the store.         *)

\* The machine's first state is a first state of the store.
LEMMA RefinementInit == SafeConfig /\ Init => Store!Init
<1> SUFFICES ASSUME SafeConfig, Init PROVE Store!Init
  OBVIOUS
<1>1. [f \in Files |-> 1] # NoTree
  BY TmpfsAssumption DEF Tree
<1>2. disk = [f \in Files |-> 1] /\ latest = disk /\ promised = disk
  BY <1>1, TmpfsAssumption DEF Init, SafeConfig, Fault
<1>3. QED
  BY <1>2 DEF Store!Init, OfMirrored, Mirrored

\* Every step is a step of the store, or leaves it alone.
LEMMA RefinementStep ==
  SafeConfig /\ SafetyInv /\ SafetyInv' /\ [Next]_vars => [Store!Next]_(Store!vars)
<1> SUFFICES ASSUME SafeConfig, SafetyInv, SafetyInv', [Next]_vars
             PROVE Store!Next \/ UNCHANGED Store!vars
  OBVIOUS
<1> DEFINE Same == UNCHANGED <<disk, latest, promised>>
<1>0. TypeInv /\ TypeInv' /\ disk \in Tree /\ disk' \in Tree
  BY DEF SafetyInv, Ordered, TypeInv, TypeOK
<1>1. Same => UNCHANGED Store!vars
  BY DEF Store!vars, OfMirrored
<1>2. CASE RebootEffect
  BY <1>0, <1>2, TmpfsAssumption
     DEF RebootEffect, Store!Next, Store!Crash, OfMirrored
<1>3. ASSUME NEW f \in Files, RestoreFile(f) PROVE Store!Next \/ UNCHANGED Store!vars
  <2>1. ram \in Tree /\ (f \in Mirrored => ram[f] = latest[f])
    BY <1>3 DEF SafetyInv, TypeInv, TypeOK, TreesExist, StepsOfCommands, MountsMatch,
                LatestIn, SameOn, RestoreFile, At
  <2>2. disk' = [disk EXCEPT ![f] = ram[f]] /\ UNCHANGED <<latest, promised>>
    BY <1>0, <1>3, TmpfsAssumption DEF RestoreFile
  <2>3. CASE f \in Mirrored
    <3>1. Store!Flush(f)
      BY <1>0, <2>1, <2>2, <2>3 DEF Store!Flush, OfMirrored, Mirrored, Tree
    <3>2. QED
      BY <2>3, <3>1 DEF Store!Next
  <2>4. CASE f \notin Mirrored
    BY <1>0, <2>2, <2>4 DEF Store!vars, OfMirrored, Mirrored, Tree
  <2>5. QED
    BY <2>3, <2>4
<1>4. ASSUME NEW w \in Writers, NEW f \in Files, Write(w, f)
      PROVE Store!Next \/ UNCHANGED Store!vars
  <2> USE <1>0, <1>4 DEF TypeInv, TypeOK
  <2>1. latest' = [latest EXCEPT ![f] = clock + 1] /\ clock \in Nat
        /\ (f \in Mirrored => latest[f] <= clock)
    BY DEF Write, SafetyInv, Ordered
  <2>2. CASE f \notin Mirrored
    BY <2>1, <2>2 DEF Write, Store!vars, OfMirrored, Mirrored, Tree
  <2>3. CASE f \in Mirrored
    <3>1. OfMirrored(latest)' = [OfMirrored(latest) EXCEPT ![f] = OfMirrored(latest)'[f]]
          /\ OfMirrored(latest)'[f] > OfMirrored(latest)[f]
          /\ OfMirrored(latest)'[f] = clock + 1
      <4>1. latest \in [Files -> Nat] /\ latest'[f] = clock + 1
            /\ \A g \in Files \ {f} : latest'[g] = latest[g]
        BY <2>1 DEF Tree
      <4>2. OfMirrored(latest)' = [g \in Mirrored |-> latest'[g]]
            /\ OfMirrored(latest) = [g \in Mirrored |-> latest[g]]
        BY DEF OfMirrored
      <4>3. OfMirrored(latest)'[f] = clock + 1 /\ OfMirrored(latest)[f] <= clock
        BY <2>1, <2>3, <4>1, <4>2
      <4>4. [g \in Mirrored |-> latest'[g]]
              = [[g \in Mirrored |-> latest[g]] EXCEPT ![f] = latest'[f]]
        BY <4>1, <2>3 DEF Mirrored
      <4>5. OfMirrored(latest)[f] \in Nat
        BY <2>3, <4>1, <4>2 DEF Mirrored
      <4>6. OfMirrored(latest)'[f] > OfMirrored(latest)[f]
        BY <2>1, <4>3, <4>5
      <4>7. OfMirrored(latest)'[f] = latest'[f]
        BY <4>1, <4>3
      <4>8. OfMirrored(latest)' = [OfMirrored(latest) EXCEPT ![f] = OfMirrored(latest)'[f]]
        BY <4>2, <4>4, <4>7, Zenon
      <4>9. QED
        BY <4>3, <4>6, <4>8
    <3>2. CASE UNCHANGED <<disk, promised>>
      <4>1. Store!Update(f)
        BY <3>1, <3>2 DEF Store!Update, OfMirrored
      <4>2. QED
        BY <2>3, <4>1 DEF Store!Next
    <3>3. CASE /\ disk' = [disk EXCEPT ![f] = clock + 1]
               /\ promised' = [promised EXCEPT ![f] = clock + 1]
      <4>1. Store!WriteThrough(f)
        BY <2>3, <3>1, <3>3 DEF Store!WriteThrough, OfMirrored, Mirrored, Tree
      <4>2. QED
        BY <2>3, <4>1 DEF Store!Next
    <3>4. QED
      BY <3>2, <3>3 DEF Write
  <2>4. QED
    BY <2>2, <2>3
<1>5. CASE Return
  <2>1. CASE promised' = promised
    BY <1>1, <1>5, <2>1 DEF Return
  <2>2. CASE op # "start" /\ code = 0
    <3>1. op \in {"stop", "commit"} /\ pc = "return"
      BY <1>5, <2>2, TmpfsAssumption
         DEF Return, At, SafeConfig, SafetyInv, TypeInv, TypeOK
    <3>2. \A f \in Mirrored : promised[f] <= target[f] /\ target[f] <= disk[f]
      BY <1>0, <2>2, <3>1
         DEF SafetyInv, TypeInv, TypeOK, PromiseGrows, LatestIn, SameOn, Ordered,
             Tree, Mirrored
    <3>3. promised' = target /\ UNCHANGED <<disk, latest>>
      BY <1>5, <2>2 DEF Return
    <3>4. Store!Acknowledge
      BY <3>2, <3>3 DEF Store!Acknowledge, OfMirrored
    <3>5. QED
      BY <3>4 DEF Store!Next
  <2>3. QED
    BY <1>5, <2>1, <2>2 DEF Return
<1>6. CASE Fstab \/ Conf \/ Mirror \/ MirrorEnd \/ Bind \/ Hangup
  BY <1>1, <1>6 DEF Fstab, Conf, Mirror, MirrorEnd, Bind, Hangup
<1>7. CASE Umount \/ KillRound \/ KillEnd \/ UmountAgain \/ BindTmp \/ Svc
  BY <1>1, <1>7 DEF Umount, KillRound, KillEnd, UmountAgain, BindTmp, Svc
<1>8. CASE Restore \/ RestoreEnd \/ PutBack
  BY <1>1, <1>8 DEF Restore, RestoreEnd, PutBack, At, Rsync, SafeConfig, SafetyInv,
                    StepsOfCommands
<1>9. CASE SysRq
  BY <1>1, <1>2, <1>9 DEF SysRq
<1>10. ASSUME NEW f \in Files, MirrorFile(f) PROVE UNCHANGED Store!vars
  BY <1>1, <1>10 DEF MirrorFile
<1>11. CASE Reboot
  BY <1>2, <1>11 DEF Reboot
<1>12. CASE ChangePhase
  BY <1>1, <1>12 DEF ChangePhase
<1>13. ASSUME NEW d \in DebugModes, NEW s \in SvcModes, EditConf(d, s)
       PROVE UNCHANGED Store!vars
  BY <1>1, <1>13 DEF EditConf
<1>14. ASSUME NEW w \in Writers, Open(w) \/ Close(w) PROVE UNCHANGED Store!vars
  BY <1>1, <1>14 DEF Open, Close
<1>15. ASSUME NEW c \in Commands, Begin(c) PROVE UNCHANGED Store!vars
  BY <1>1, <1>15 DEF Begin
<1>16. CASE UNCHANGED vars
  BY <1>1, <1>16
<1>17. QED
  BY <1>3, <1>4, <1>5, <1>6, <1>7, <1>8, <1>9, <1>10, <1>11, <1>12, <1>13,
     <1>14, <1>15, <1>16 DEF Next, Step, Environment

\* Under SafeConfig the service implements the write-back store: mirroring
\* and mounting move no update, a restore flushes files one by one, success
\* is reported only for what is on the disk, and a reboot is a crash.
THEOREM ServiceImplementsStore == SafeConfig => (Spec => ImplementsStore)
<1> SUFFICES ASSUME SafeConfig PROVE Spec => ImplementsStore
  OBVIOUS
<1>1. Init => SafetyInv /\ Store!Init
  BY SafetyInit, RefinementInit
<1>2. SafetyInv /\ [Next]_vars => SafetyInv'
  BY SafetyStep
<1>3. SafetyInv /\ SafetyInv' /\ [Next]_vars => [Store!Next]_(Store!vars)
  BY RefinementStep
<1>4. QED
  BY <1>1, <1>2, <1>3, PTL DEF Spec, ImplementsStore, Store!Spec

\* What a start is about to report.
LEMMA MountingStep ==
  SafeConfig /\ SafetyInv /\ Mounting /\ [Next]_vars => Mounting'
<1> SUFFICES ASSUME SafeConfig, SafetyInv, Mounting, [Next]_vars PROVE Mounting'
  OBVIOUS
<1>0. StepsOfCommands /\ MountsMatch /\ disk # NoTree /\ op \in Commands \cup {"none"}
  BY DEF SafetyInv, TypeInv, TypeOK, Ordered
<1> USE DEF Mounting, At, Goto, Exit
<1>1. CASE Fstab
  BY <1>1 DEF Fstab
<1>2. CASE Conf
  <2>1. op = "start" => (depth = 0 /\ View # NoTree) \/ depth = 1
    BY <1>0 DEF MountsMatch, View
  <2>2. CASE op = "start" /\ Mounted
    BY <1>2, <2>1, <2>2 DEF Conf, Mounted, View
  <2>3. CASE op = "start" /\ ~Mounted
    <3>1. depth = 0 /\ View # NoTree
      BY <1>0, <2>1, <2>3 DEF Mounted, SafeConfig
    <3> QED BY <1>2, <2>3, <3>1 DEF Conf, SaveSvc
  <2>4. CASE op # "start"
    BY <1>2, <2>4 DEF Conf, SaveSvc
  <2> QED BY <2>2, <2>3, <2>4
<1>3. CASE MirrorEnd
  BY <1>3 DEF MirrorEnd
<1>4. CASE Bind
  BY <1>0, <1>4 DEF Bind, StepsOfCommands, MountsMatch
<1>5. CASE Svc
  BY <1>5 DEF Svc
<1>6. CASE Umount \/ KillRound \/ KillEnd \/ UmountAgain
  BY <1>0, <1>6 DEF Umount, KillRound, KillEnd, UmountAgain, StepsOfCommands
<1>7. CASE Restore \/ RestoreEnd \/ PutBack \/ BindTmp
  BY <1>0, <1>7 DEF Restore, RestoreEnd, PutBack, BindTmp, StepsOfCommands
<1>8. CASE SysRq
  BY <1>0, <1>8 DEF SysRq, RebootEffect, StepsOfCommands
<1>9. CASE Return \/ Reboot
  BY <1>9 DEF Return, Reboot, RebootEffect
<1>10. CASE Mirror \/ Hangup \/ ChangePhase
  BY <1>10 DEF Mirror, Hangup, ChangePhase
<1>11. ASSUME NEW f \in Files, MirrorFile(f) \/ RestoreFile(f) PROVE Mounting'
  BY <1>11 DEF MirrorFile, RestoreFile
<1>12. ASSUME NEW d \in DebugModes, NEW s \in SvcModes, EditConf(d, s) PROVE Mounting'
  BY <1>12 DEF EditConf
<1>13. ASSUME NEW w \in Writers, NEW f \in Files, Write(w, f) PROVE Mounting'
  BY <1>13 DEF Write
<1>14. ASSUME NEW w \in Writers, Open(w) \/ Close(w) PROVE Mounting'
  BY <1>14 DEF Open, Close
<1>15. ASSUME NEW c \in Commands, Begin(c) PROVE Mounting'
  BY <1>15 DEF Begin
<1>16. CASE UNCHANGED vars
  BY <1>16
<1> QED
  BY <1>1, <1>2, <1>3, <1>4, <1>5, <1>6, <1>7, <1>8, <1>9, <1>10, <1>11, <1>12, <1>13,
     <1>14, <1>15, <1>16 DEF Next, Step, Environment

\* start returns 0 only with the mirror mounted, under SafeConfig.
THEOREM StartedMeansMountedHolds == SafeConfig => (Spec => []StartedMeansMounted)
<1> SUFFICES ASSUME SafeConfig PROVE Spec => []StartedMeansMounted
  OBVIOUS
<1>1. Init => SafetyInv /\ Mounting
  BY SafetyInit DEF Init, Mounting
<1>2. SafetyInv /\ Mounting /\ [Next]_vars => SafetyInv' /\ Mounting'
  BY SafetyStep, MountingStep
<1>3. Mounting => StartedMeansMounted
  BY DEF Mounting, StartedMeansMounted, At
<1>4. QED
  BY <1>1, <1>2, <1>3, PTL DEF Spec

\* No step of a commit takes a mirrored file on the disk back, under
\* SafeConfig: what it copies is the last update, and what a daemon writes to
\* the disk meanwhile is newer than what is there.
THEOREM CommitLosesNothingHolds == SafeConfig => (Spec => CommitLosesNothing)
<1> SUFFICES ASSUME SafeConfig PROVE Spec => CommitLosesNothing
  OBVIOUS
<1>1. ASSUME SafetyInv, SafetyInv', [Next]_vars
      PROVE  [op = "commit" => Keeps(disk', disk)]_vars
  <2> SUFFICES ASSUME Next, op = "commit" PROVE Keeps(disk', disk)
    BY <1>1
  <2>0. /\ disk \in Tree /\ disk' \in Tree /\ disk' # NoTree /\ ram \in Tree \cup {NoTree}
        /\ latest \in Tree /\ clock \in Nat
        /\ \A f \in Mirrored : disk[f] <= latest[f] /\ latest[f] <= clock
        /\ pc = "restoring" => ram \in Tree /\ \A f \in Mirrored : ram[f] = latest[f]
    BY <1>1 DEF SafetyInv, TypeInv, TypeOK, Ordered, MountsMatch, LatestIn, SameOn
  <2>1. SUFFICES \A f \in Mirrored : disk[f] <= disk'[f]
    BY <2>0 DEF Keeps, Mirrored
  <2>2. CASE disk' = disk
    BY <2>0, <2>2 DEF Tree, Mirrored
  <2>3. ASSUME NEW g \in Files, RestoreFile(g)
        PROVE  \A f \in Mirrored : disk[f] <= disk'[f]
    <3>1. disk' = [disk EXCEPT ![g] = ram[g]] /\ pc = "restoring"
      BY <2>0, <2>3, TmpfsAssumption DEF RestoreFile, At
    <3> QED BY <2>0, <3>1 DEF Tree, Mirrored
  <2>4. ASSUME NEW w \in Writers, NEW g \in Files, Write(w, g)
        PROVE  \A f \in Mirrored : disk[f] <= disk'[f]
    <3>1. disk' = disk \/ disk' = [disk EXCEPT ![g] = clock + 1]
      BY <2>4 DEF Write
    <3>2. CASE disk' = [disk EXCEPT ![g] = clock + 1]
      <4>1. \A f \in Mirrored : disk[f] \in Nat /\ latest[f] \in Nat
        BY <2>0 DEF Tree, Mirrored
      <4>2. \A f \in Mirrored : disk[f] <= clock
        BY <2>0, <4>1
      <4> QED BY <2>0, <3>2, <4>1, <4>2 DEF Tree, Mirrored
    <3> QED BY <2>2, <3>1, <3>2
  <2>5. CASE Restore \/ RestoreEnd \/ PutBack
    BY <1>1, <2>2, <2>5 DEF Restore, RestoreEnd, PutBack, At, Rsync, SafeConfig, SafetyInv,
                            StepsOfCommands
  <2>6. CASE Fstab \/ Conf \/ Mirror \/ MirrorEnd \/ Bind \/ Hangup
    BY <2>2, <2>6 DEF Fstab, Conf, Mirror, MirrorEnd, Bind, Hangup
  <2>7. CASE Umount \/ KillRound \/ KillEnd \/ UmountAgain \/ BindTmp \/ Svc \/ Return
    BY <2>2, <2>7 DEF Umount, KillRound, KillEnd, UmountAgain, BindTmp, Svc, Return
  <2>8. CASE SysRq \/ Reboot \/ ChangePhase
    BY <2>2, <2>8 DEF SysRq, Reboot, RebootEffect, ChangePhase
  <2>9. CASE \E f \in Files : MirrorFile(f)
    BY <2>2, <2>9 DEF MirrorFile
  <2>10. CASE \E d \in DebugModes, s \in SvcModes : EditConf(d, s)
    BY <2>2, <2>10 DEF EditConf
  <2>11. CASE \E w \in Writers : Open(w) \/ Close(w)
    BY <2>2, <2>11 DEF Open, Close
  <2>12. CASE \E c \in Commands : Begin(c)
    BY <2>2, <2>12 DEF Begin
  <2>13. QED
    BY <2>3, <2>4, <2>5, <2>6, <2>7, <2>8, <2>9, <2>10, <2>11, <2>12 DEF Next, Step, Environment
<1>2. Init => SafetyInv
  BY SafetyInit
<1>3. SafetyInv /\ [Next]_vars => SafetyInv'
  BY SafetyStep
<1>4. QED
  BY <1>1, <1>2, <1>3, PTL DEF Spec, CommitLosesNothing

-----------------------------------------------------------------------------
(* Copies with cp *)

LEMMA CopyInit == CopyConfig /\ Init => CopyInv
<1> SUFFICES ASSUME CopyConfig, Init PROVE CopyInv
  OBVIOUS
<1>1. TypeInv
  BY TypeInit
<1>a. [f \in Files |-> 1] # NoTree
  BY TmpfsAssumption DEF Tree
<1>2. disk = [f \in Files |-> 1] /\ latest = disk /\ target = disk /\ promised = disk
  BY <1>a, TmpfsAssumption DEF Init, CopyConfig, Fault
<1>3. /\ op = "none" /\ pc = "idle" /\ depth = 0 /\ clock = 1 /\ reboots = 0
      /\ ram = NoTree /\ diskOld = NoTree /\ code = 0
      /\ open = [w \in Writers |-> "none"]
  BY DEF Init
<1>4. CopySteps /\ CopyMounts
  BY <1>3 DEF CopySteps, CopyMounts
<1>5. CopyLatest
  BY <1>2, <1>3 DEF CopyLatest, SameOn, Mirrored
<1>b. Keeps(disk, promised)
  BY <1>a, <1>2 DEF Keeps
<1>6. CopyTrees
  BY <1>3, <1>b DEF CopyTrees
<1>8. Recoverable
  BY <1>b DEF Keeps, Recoverable
<1>7. QED
  BY <1>1, <1>3, <1>4, <1>5, <1>6, <1>8 DEF CopyInv, BeforeCrash

\* Up to the first crash no step of a command or a daemon loses the tree that
\* is complete.
LEMMA CopyStep ==
  CopyConfig /\ CopyInv /\ TypeInv' /\ reboots = 0 /\ reboots' = 0 /\ [Next]_vars => BeforeCrash'
<1> SUFFICES ASSUME CopyConfig, CopyInv, TypeInv', reboots = 0, reboots' = 0, [Next]_vars
             PROVE  BeforeCrash'
  OBVIOUS
<1>0. /\ TypeInv /\ TypeInv' /\ CopySteps /\ CopyMounts /\ CopyLatest /\ CopyTrees
      /\ op = "none" <=> pc = "idle"
      /\ op \in {"none", "start", "stop", "forceumount"} /\ Commands \subseteq {"start", "stop", "forceumount"}
  BY TmpfsAssumption DEF CopyInv, BeforeCrash, CopyConfig, TypeInv, TypeOK
<1> USE <1>0, TmpfsAssumption
    DEF CopyConfig, TypeInv, TypeOK, TreesExist, CopySteps, CopyMounts, CopyLatest, CopyTrees,
        SameOn, Keeps, Mirrored, Tree
<1>1. CASE Fstab
  <2>1. CopySteps'
    BY <1>1 DEF Fstab, At, Goto, Exit
  <2>2. CopyMounts'
    BY <1>1 DEF Fstab, At, Goto, Exit
  <2>3. CopyLatest'
    BY <1>1 DEF Fstab, At, Goto, Exit
  <2>4. CopyTrees'
    BY <1>1 DEF Fstab, At, Goto, Exit
  <2>5. QED
    BY <2>1, <2>2, <2>3, <2>4 DEF BeforeCrash
<1>2. CASE Conf
  <2>1. CopySteps'
    BY <1>2 DEF Conf, At, Goto, Exit, SaveSvc, View, Mounted
  <2>2. CopyMounts'
    BY <1>2 DEF Conf, At, Goto, Exit, SaveSvc, View, Mounted
  <2>3. CopyLatest'
    BY <1>2 DEF Conf, At, Goto, Exit, SaveSvc, View, Mounted
  <2>4. CopyTrees'
    BY <1>2 DEF Conf, At, Goto, Exit, SaveSvc, View, Mounted
  <2>5. QED
    BY <2>1, <2>2, <2>3, <2>4 DEF BeforeCrash
<1>3. CASE Mirror
  <2>1. CopySteps'
    BY <1>3 DEF Mirror, At, Goto, Rsync, EmptyTree
  <2>2. CopyMounts'
    BY <1>3 DEF Mirror, At, Goto, Rsync, EmptyTree
  <2>3. CopyLatest'
    BY <1>3 DEF Mirror, At, Goto, Rsync, EmptyTree
  <2>4. CopyTrees'
    BY <1>3 DEF Mirror, At, Goto, Rsync, EmptyTree
  <2>5. QED
    BY <2>1, <2>2, <2>3, <2>4 DEF BeforeCrash
<1>4. CASE MirrorEnd
  <2>1. CopySteps'
    BY <1>4 DEF MirrorEnd, At, Goto, Rsync, Fault
  <2>2. CopyMounts'
    BY <1>4 DEF MirrorEnd, At, Goto, Rsync, Fault
  <2>3. CopyLatest'
    BY <1>4 DEF MirrorEnd, At, Goto, Rsync, Fault
  <2>4. CopyTrees'
    BY <1>4 DEF MirrorEnd, At, Goto, Rsync, Fault
  <2>5. QED
    BY <2>1, <2>2, <2>3, <2>4 DEF BeforeCrash
<1>5. CASE Bind
  <2>1. CopySteps'
    BY <1>5 DEF Bind, At, Goto, Fault
  <2>2. CopyMounts'
    BY <1>5 DEF Bind, At, Goto, Fault
  <2>3. CopyLatest'
    BY <1>5 DEF Bind, At, Goto, Fault
  <2>4. CopyTrees'
    BY <1>5 DEF Bind, At, Goto, Fault
  <2>5. QED
    BY <2>1, <2>2, <2>3, <2>4 DEF BeforeCrash
<1>6. CASE Hangup
  <2>1. CopySteps'
    BY <1>6 DEF Hangup, At, Goto, Holders
  <2>2. CopyMounts'
    BY <1>6 DEF Hangup, At, Goto, Holders
  <2>3. CopyLatest'
    BY <1>6 DEF Hangup, At, Goto, Holders
  <2>4. CopyTrees'
    BY <1>6 DEF Hangup, At, Goto, Holders
  <2>5. QED
    BY <2>1, <2>2, <2>3, <2>4 DEF BeforeCrash
<1>7. CASE Umount
  <2>1. CopySteps'
    BY <1>7 DEF Umount, At, Goto, CanUmount, Mounted, Holders, Fault
  <2>2. CopyMounts'
    BY <1>7 DEF Umount, At, Goto, CanUmount, Mounted, Holders, Fault
  <2>3. CopyLatest'
    BY <1>7 DEF Umount, At, Goto, CanUmount, Mounted, Holders, Fault
  <2>4. CopyTrees'
    BY <1>7 DEF Umount, At, Goto, CanUmount, Mounted, Holders, Fault
  <2>5. QED
    BY <2>1, <2>2, <2>3, <2>4 DEF BeforeCrash
<1>8. CASE KillRound
  <2>1. CopySteps'
    BY <1>8 DEF KillRound, At, Holders, Fault
  <2>2. CopyMounts'
    BY <1>8 DEF KillRound, At, Holders, Fault
  <2>3. CopyLatest'
    BY <1>8 DEF KillRound, At, Holders, Fault
  <2>4. CopyTrees'
    BY <1>8 DEF KillRound, At, Holders, Fault
  <2>5. QED
    BY <2>1, <2>2, <2>3, <2>4 DEF BeforeCrash
<1>9. CASE KillEnd
  <2>1. CopySteps'
    BY <1>9 DEF KillEnd, At, Goto, Holders
  <2>2. CopyMounts'
    BY <1>9 DEF KillEnd, At, Goto, Holders
  <2>3. CopyLatest'
    BY <1>9 DEF KillEnd, At, Goto, Holders
  <2>4. CopyTrees'
    BY <1>9 DEF KillEnd, At, Goto, Holders
  <2>5. QED
    BY <2>1, <2>2, <2>3, <2>4 DEF BeforeCrash
<1>10. CASE UmountAgain
  <2>1. CopySteps'
    BY <1>10 DEF UmountAgain, At, Goto, CanUmount, Holders, Fault, Mounted
  <2>2. CopyMounts'
    BY <1>10 DEF UmountAgain, At, Goto, CanUmount, Holders, Fault, Mounted
  <2>3. CopyLatest'
    BY <1>10 DEF UmountAgain, At, Goto, CanUmount, Holders, Fault, Mounted
  <2>4. CopyTrees'
    BY <1>10 DEF UmountAgain, At, Goto, CanUmount, Holders, Fault, Mounted
  <2>5. QED
    BY <2>1, <2>2, <2>3, <2>4 DEF BeforeCrash
<1>11. CASE Restore
  <2>1. CopySteps'
    BY <1>11 DEF Restore, At, Goto, Rsync, Landing
  <2>2. CopyMounts'
    BY <1>11 DEF Restore, At, Goto, Rsync, Landing
  <2>3. CopyLatest'
    BY <1>11 DEF Restore, At, Goto, Rsync, Landing
  <2>4. CopyTrees'
    BY <1>11 DEF Restore, At, Goto, Rsync, Landing
  <2>5. QED
    BY <2>1, <2>2, <2>3, <2>4 DEF BeforeCrash
<1>12. CASE RestoreEnd
  <2>1. CopySteps'
    BY <1>12 DEF RestoreEnd, At, Goto, Rsync, IntoItself, Landing
  <2>2. CopyMounts'
    BY <1>12 DEF RestoreEnd, At, Goto, Rsync, IntoItself, Landing
  <2>3. CopyLatest'
    BY <1>12 DEF RestoreEnd, At, Goto, Rsync, IntoItself, Landing
  <2>4. CopyTrees'
    BY <1>12 DEF RestoreEnd, At, Goto, Rsync, IntoItself, Landing
  <2>5. QED
    BY <2>1, <2>2, <2>3, <2>4 DEF BeforeCrash
<1>13. CASE PutBack
  <2>1. CopySteps'
    BY <1>13 DEF PutBack, At, Goto
  <2>2. CopyMounts'
    BY <1>13 DEF PutBack, At, Goto
  <2>3. CopyLatest'
    BY <1>13 DEF PutBack, At, Goto
  <2>4. CopyTrees'
    BY <1>13 DEF PutBack, At, Goto
  <2>5. QED
    BY <2>1, <2>2, <2>3, <2>4 DEF BeforeCrash
<1>14. CASE Svc
  <2>1. CopySteps'
    BY <1>14 DEF Svc, At, Goto, Exit
  <2>2. CopyMounts'
    BY <1>14 DEF Svc, At, Goto, Exit
  <2>3. CopyLatest'
    BY <1>14 DEF Svc, At, Goto, Exit
  <2>4. CopyTrees'
    BY <1>14 DEF Svc, At, Goto, Exit
  <2>5. QED
    BY <2>1, <2>2, <2>3, <2>4 DEF BeforeCrash
<1>15. CASE Return
  <2>1. CopySteps'
    BY <1>15 DEF Return, At
  <2>2. CopyMounts'
    BY <1>15 DEF Return, At
  <2>3. CopyLatest'
    BY <1>15 DEF Return, At
  <2>4. CopyTrees'
    BY <1>15 DEF Return, At
  <2>5. QED
    BY <2>1, <2>2, <2>3, <2>4 DEF BeforeCrash
<1>16. CASE ChangePhase
  <2>1. CopySteps'
    BY <1>16 DEF ChangePhase
  <2>2. CopyMounts'
    BY <1>16 DEF ChangePhase
  <2>3. CopyLatest'
    BY <1>16 DEF ChangePhase
  <2>4. CopyTrees'
    BY <1>16 DEF ChangePhase
  <2>5. QED
    BY <2>1, <2>2, <2>3, <2>4 DEF BeforeCrash
<1>17. ASSUME NEW f \in Files, MirrorFile(f) PROVE BeforeCrash'
  <2>1. CopySteps'
    BY <1>17 DEF MirrorFile, At, View
  <2>2. CopyMounts'
    BY <1>17 DEF MirrorFile, At, View
  <2>3. CopyLatest'
    BY <1>17 DEF MirrorFile, At, View
  <2>4. CopyTrees'
    BY <1>17 DEF MirrorFile, At, View
  <2>5. QED
    BY <2>1, <2>2, <2>3, <2>4 DEF BeforeCrash
<1>18. ASSUME NEW f \in Files, RestoreFile(f) PROVE BeforeCrash'
  <2>1. CopySteps'
    BY <1>18 DEF RestoreFile, At, EmptyTree
  <2>2. CopyMounts'
    BY <1>18 DEF RestoreFile, At, EmptyTree
  <2>3. CopyLatest'
    BY <1>18 DEF RestoreFile, At, EmptyTree
  <2>4. CopyTrees'
    BY <1>18 DEF RestoreFile, At, EmptyTree
  <2>5. QED
    BY <2>1, <2>2, <2>3, <2>4 DEF BeforeCrash
<1>19. ASSUME NEW d \in DebugModes, NEW s \in SvcModes, EditConf(d, s) PROVE BeforeCrash'
  <2>1. CopySteps'
    BY <1>19 DEF EditConf
  <2>2. CopyMounts'
    BY <1>19 DEF EditConf
  <2>3. CopyLatest'
    BY <1>19 DEF EditConf
  <2>4. CopyTrees'
    BY <1>19 DEF EditConf
  <2>5. QED
    BY <2>1, <2>2, <2>3, <2>4 DEF BeforeCrash
<1>20. ASSUME NEW w \in Writers, Open(w) \/ Close(w) PROVE BeforeCrash'
  <2>1. CopySteps'
    BY <1>20 DEF Open, Close, Where, View, Holders
  <2>2. CopyMounts'
    BY <1>20 DEF Open, Close, Where, View, Holders
  <2>3. CopyLatest'
    BY <1>20 DEF Open, Close, Where, View, Holders
  <2>4. CopyTrees'
    BY <1>20 DEF Open, Close, Where, View, Holders
  <2>5. QED
    BY <2>1, <2>2, <2>3, <2>4 DEF BeforeCrash
<1>21. ASSUME NEW w \in Writers, NEW f \in Files, Write(w, f) PROVE BeforeCrash'
  <2>1. CopySteps'
    BY <1>21 DEF Write, Holders
  <2>2. CopyMounts'
    BY <1>21 DEF Write
  <2>3. CopyLatest'
    BY <1>21 DEF Write
  <2>4. CopyTrees'
    BY <1>21 DEF Write
  <2>5. QED
    BY <2>1, <2>2, <2>3, <2>4 DEF BeforeCrash
<1>22. ASSUME NEW c \in Commands, Begin(c) PROVE BeforeCrash'
  <2>1. CopySteps'
    BY <1>22 DEF Begin, InOrder
  <2>2. CopyMounts'
    BY <1>22 DEF Begin, InOrder
  <2>3. CopyLatest'
    BY <1>22 DEF Begin, InOrder
  <2>4. CopyTrees'
    BY <1>22 DEF Begin, InOrder
  <2>5. QED
    BY <2>1, <2>2, <2>3, <2>4 DEF BeforeCrash
<1>23. CASE UNCHANGED vars
  <2>1. CopySteps'
    BY <1>23 DEF Holders
  <2>2. CopyMounts'
    BY <1>23 DEF Holders
  <2>3. CopyLatest'
    BY <1>23 DEF Holders
  <2>4. CopyTrees'
    BY <1>23 DEF Holders
  <2>5. QED
    BY <2>1, <2>2, <2>3, <2>4 DEF BeforeCrash
<1>24. ~RebootEffect /\ ~BindTmp
  BY DEF RebootEffect, BindTmp, At, CopySteps
<1>25. CASE SysRq
  <2>1. At("sysrq") /\ Goto("return")
        /\ UNCHANGED <<trees, mounts, status, cursor, history, outside, open>>
    BY <1>24, <1>25 DEF SysRq
  <2>2. CopySteps' /\ CopyMounts'
    BY <2>1 DEF At, Goto, Holders
  <2>3. CopyLatest' /\ CopyTrees'
    BY <2>1 DEF At, Goto
  <2>4. QED
    BY <2>2, <2>3 DEF BeforeCrash
<1>26. QED
  BY <1>1, <1>2, <1>3, <1>4, <1>5, <1>6, <1>7, <1>8, <1>9, <1>10, <1>11, <1>12, <1>13, <1>14, <1>15, <1>16, <1>17, <1>18, <1>19, <1>20, <1>21, <1>22, <1>23, <1>24, <1>25 DEF Next, Step, Environment, Reboot

\* After the first crash no command is run, and daemons write to the disk.
LEMMA CopyAfterCrash ==
  CopyConfig /\ CopyInv /\ TypeInv' /\ reboots # 0 /\ [Next]_vars => CopyInv'
<1> SUFFICES ASSUME CopyConfig, CopyInv, TypeInv', reboots # 0, [Next]_vars
             PROVE  CopyInv'
  OBVIOUS
<1>0. /\ op = "none" /\ pc = "idle" /\ Recoverable /\ TypeOK /\ reboots \in Nat /\ MaxReboots \in Nat
      /\ ~(reboots < MaxReboots)
  BY TmpfsAssumption DEF CopyInv, CopyConfig, TypeInv, TypeOK
<1>1. ~Step /\ ~Reboot /\ \A c \in Commands : ~Begin(c)
  BY <1>0 DEF Step, Reboot, Begin, At, Fstab, Conf, Mirror, MirrorEnd, Bind, Hangup, Umount,
              KillRound, KillEnd, UmountAgain, Restore, RestoreEnd, PutBack, BindTmp, Svc, SysRq,
              Return, MirrorFile, RestoreFile
<1>2. op' = op /\ pc' = pc /\ reboots' = reboots
  BY <1>1 DEF Next, Environment, ChangePhase, EditConf, Open, Close, Write
<1>3. Recoverable'
  <2>1. ASSUME NEW w \in Writers, NEW f \in Files, Write(w, f) PROVE Recoverable'
    <3>1. CASE UNCHANGED <<disk, promised>>
      BY <1>0, <2>1, <3>1 DEF Write, Recoverable
    <3>2. CASE /\ disk # NoTree
               /\ disk' = [disk EXCEPT ![f] = clock']
               /\ promised' = [promised EXCEPT ![f] = clock']
      <4>1. disk \in Tree /\ promised \in Tree /\ diskOld' = diskOld /\ clock' \in Nat
        BY <1>0, <2>1, <3>2 DEF Write, TypeOK
      <4>2. disk' # NoTree
        BY <3>2, <4>1, TmpfsAssumption DEF Tree
      <4>3. /\ disk'[f] = clock' /\ promised'[f] = clock'
            /\ \A g \in Files \ {f} : disk'[g] = disk[g] /\ promised'[g] = promised[g]
        BY <3>2, <4>1 DEF Tree
      <4>4. ASSUME NEW g \in Files \ Excluded
            PROVE  \E tree \in {disk', diskOld'} : tree # NoTree /\ promised'[g] <= tree[g]
        <5>1. CASE g = f
          BY <4>1, <4>2, <4>3, <5>1
        <5>2. CASE g # f
          BY <1>0, <4>1, <4>2, <4>3, <5>2 DEF Recoverable
        <5>3. QED
          BY <5>1, <5>2
      <4>5. QED
        BY <4>4 DEF Recoverable
    <3>3. QED
      BY <2>1, <3>1, <3>2 DEF Write
  <2>2. CASE UNCHANGED <<disk, diskOld, promised>>
    BY <1>0, <2>2 DEF Recoverable
  <2>3. QED
    BY <1>1, <2>1, <2>2 DEF Next, Environment, ChangePhase, EditConf, Open, Close
<1>4. QED
  BY <1>0, <1>2, <1>3 DEF CopyInv

LEMMA CopyNext == CopyConfig /\ CopyInv /\ [Next]_vars => CopyInv'
<1> SUFFICES ASSUME CopyConfig, CopyInv, [Next]_vars PROVE CopyInv'
  OBVIOUS
<1>1. TypeInv' /\ reboots \in Nat
  BY TypeStep DEF CopyInv, TypeInv, TypeOK
<1>2. (op = "none" <=> pc = "idle")'
  <2>0. op = "none" <=> pc = "idle"
    BY DEF CopyInv
  <2>1. CASE Environment
    BY <2>0, <2>1 DEF Environment, Reboot, RebootEffect, ChangePhase, EditConf, Open, Close, Write
  <2>2. ASSUME NEW c \in Commands, Begin(c) PROVE op' # "none" /\ pc' # "idle"
    BY <2>2, TmpfsAssumption DEF Begin
  <2>3. CASE Fstab \/ Conf \/ Mirror \/ MirrorEnd \/ Bind \/ Hangup
    BY <2>0, <2>3 DEF At, Goto, Exit, Fstab, Conf, Mirror, MirrorEnd, Bind, Hangup
  <2>4. CASE Umount \/ KillRound \/ KillEnd \/ UmountAgain \/ Restore \/ RestoreEnd \/ PutBack
    BY <2>0, <2>4 DEF At, Goto, Umount, KillRound, KillEnd, UmountAgain, Restore, RestoreEnd, PutBack
  <2>5. CASE BindTmp \/ Svc \/ SysRq \/ Return
    BY <2>0, <2>5 DEF At, Goto, Exit, BindTmp, Svc, SysRq, RebootEffect, Return
  <2>6. ASSUME NEW f \in Files, MirrorFile(f) \/ RestoreFile(f) PROVE op' = op /\ pc' = pc
    BY <2>6 DEF MirrorFile, RestoreFile
  <2>7. CASE UNCHANGED vars
    BY <2>0, <2>7
  <2>8. QED
    BY <2>0, <2>1, <2>2, <2>3, <2>4, <2>5, <2>6, <2>7 DEF Next, Step
<1>3. CASE reboots # 0
  BY <1>1, <1>3, CopyAfterCrash
<1>4. CASE reboots = 0 /\ reboots' = 0
  <2>1. BeforeCrash'
    BY <1>1, <1>4, CopyStep
  <2>2. CopyTrees' => Recoverable'
    BY DEF CopyTrees, Recoverable, Keeps
  <2>3. QED
    BY <1>1, <1>2, <1>4, <2>1, <2>2 DEF CopyInv, BeforeCrash
<1>5. CASE reboots = 0 /\ reboots' # 0
  <2>1. RebootEffect
    BY <1>5 DEF Next, Step, Environment, Reboot, Begin, Fstab, Conf,
         Mirror, MirrorEnd, Bind, Hangup, Umount,
         KillRound, KillEnd, UmountAgain, Restore, RestoreEnd, PutBack, BindTmp, Svc, SysRq,
         Return, MirrorFile, RestoreFile, ChangePhase, EditConf, Open, Close, Write
  <2>2. op' = "none" /\ UNCHANGED <<disk, diskOld, promised>>
    BY <2>1 DEF RebootEffect
  <2>3. Recoverable'
    BY <2>2 DEF CopyInv, Recoverable
  <2>4. QED
    BY <1>1, <1>2, <1>5, <2>2, <2>3 DEF CopyInv
<1>6. QED
  BY <1>3, <1>4, <1>5

LEMMA CopySaves == CopyInv => SuccessSaves
<1>1. CopyInv /\ op # "none" => CopyTrees
  BY DEF CopyInv, BeforeCrash
<1>2. QED
  BY <1>1 DEF CopyTrees, SuccessSaves, At

\* Without rsync, up to the first crash and through it, every file is found no older
\* than promised at its place or in the .old beside it.
THEOREM CopiesRecover == CopyConfig => (Spec => []Recoverable)
<1> SUFFICES ASSUME CopyConfig PROVE Spec => []Recoverable
  OBVIOUS
<1>1. CopyInv => Recoverable
  BY DEF CopyInv
<1>2. Init => CopyInv
  BY CopyInit
<1>3. CopyInv /\ [Next]_vars => CopyInv'
  BY CopyNext
<1>4. QED
  BY <1>1, <1>2, <1>3, PTL DEF Spec

\* Without rsync a write-back that reports success has saved every file.
THEOREM CopiesSave == CopyConfig => (Spec => []SuccessSaves)
<1> SUFFICES ASSUME CopyConfig PROVE Spec => []SuccessSaves
  OBVIOUS
<1>1. CopyInv => SuccessSaves
  BY CopySaves
<1>2. Init => CopyInv
  BY CopyInit
<1>3. CopyInv /\ [Next]_vars => CopyInv'
  BY CopyNext
<1>4. QED
  BY <1>1, <1>2, <1>3, PTL DEF Spec

=============================================================================
