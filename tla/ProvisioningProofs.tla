------------------------- MODULE ProvisioningProofs -------------------------
(***************************************************************************)
(* Proofs about Provisioning: whatever the two scripts are interrupted by  *)
(* and however often they run, stack.json is not discarded while RDS or    *)
(* ElastiCache exists (E-033), and what bills is deleted first.            *)
(*                                                                         *)
(* The invariant follows the scripts: from the statement after the names   *)
(* are saved, and through all of teardown.py, the record is there          *)
(* (Recorded); and at the end of teardown.py what is not among the remains *)
(* was seen to be gone, and nothing creates it again (Verified).           *)
(***************************************************************************)
EXTENDS Provisioning, TLAPS

P == ProvisionScript
T == TeardownScript

-----------------------------------------------------------------------------
(* The scripts *)

\* The names of the instances are saved as the fifteenth of 24 statements.
LEMMA ProvisionOrder ==
    /\ Len(P) = 24 /\ DOMAIN P = 1..24 /\ Head(P) = P[1]
    /\ P[15] = <<"save", "names">> /\ P[24] = <<"env", "endpoints">>
    /\ \A i \in 1..24 : P[i][1] \in {"create", "allow", "attach", "save", "env", "await"}
BY SMTT(60) DEF P, ProvisionScript

\* The instances are created by the statements after that one.
LEMMA ProvisionInstances == P[17] = <<"create", "rds">> /\ P[21] = <<"create", "cache">>
BY DEF P, ProvisionScript

\* No statement of provision.py is there twice.
LEMMA ProvisionOnce == \A i, j \in 1..24 : P[i] = P[j] => i = j
BY SMTT(60) DEF P, ProvisionScript

\* The last three of fifteen statements verify and discard.
LEMMA TeardownOrder ==
    /\ Len(T) = 15 /\ DOMAIN T = 1..15 /\ Head(T) = T[1]
    /\ T[13] = <<"verify", "rds">> /\ T[14] = <<"verify", "cache">>
    /\ T[15] = <<"unlink", "record">>
    /\ \A i \in 1..15 : T[i][1] \in {"drop", "gone", "verify", "unlink"}
BY SMTT(60) DEF T, TeardownScript, Bills, Free, Wait, Groups, Verify

\* No statement of teardown.py is there twice.
LEMMA TeardownOnce == \A i, j \in 1..15 : T[i] = T[j] => i = j
BY SMTT(60) DEF T, TeardownScript, Bills, Free, Wait, Groups, Verify

\* No statement is of both scripts, and Idle is of none.
LEMMA ScriptsApart ==
    /\ \A i \in 1..24, j \in 1..15 : P[i] # T[j]
    /\ \A i \in 1..24 : P[i] # Idle
    /\ \A j \in 1..15 : T[j] # Idle
<1>1. \A i \in 1..24, j \in 1..15 : P[i][1] # T[j][1]
  BY ProvisionOrder, TeardownOrder
<1>2. Idle[1] = "idle"
  BY DEF Idle
<1>3. \A i \in 1..24 : P[i][1] # Idle[1]
  BY <1>2, ProvisionOrder
<1>4. \A j \in 1..15 : T[j][1] # Idle[1]
  BY <1>2, TeardownOrder
<1> QED
  BY <1>1, <1>3, <1>4

\* A statement tells which script runs.
LEMMA WhichScript ==
    ASSUME pc \in Steps
    PROVE  /\ pc[1] \in {"create", "allow", "attach", "save", "env", "await"}
                 => \E i \in 1..24 : pc = P[i]
           /\ pc[1] \in {"drop", "gone", "verify", "unlink"} => \E i \in 1..15 : pc = T[i]
<1>1. pc = Idle \/ (\E i \in 1..24 : pc = P[i]) \/ (\E i \in 1..15 : pc = T[i])
  BY ProvisionOrder, TeardownOrder DEF Steps, InScript, P, T
<1>2. Idle[1] = "idle"
  BY DEF Idle
<1>3. CASE pc = Idle
  BY <1>2, <1>3
<1>4. CASE \E i \in 1..24 : pc = P[i]
  BY <1>4, ProvisionOrder
<1>5. CASE \E i \in 1..15 : pc = T[i]
  BY <1>5, TeardownOrder
<1> QED
  BY <1>1, <1>3, <1>4, <1>5

\* The statement after the current one, in each script.
LEMMA ProvisionMoves ==
    ASSUME NEW i \in 1..24, pc = P[i], Provisioned
    PROVE  pc' = IF i = 24 THEN Idle ELSE P[i + 1]
<1> DEFINE k == CHOOSE k \in DOMAIN ProvisionScript : ProvisionScript[k] = pc
<1>1. k \in 1..24 /\ P[k] = pc
  BY ProvisionOrder DEF P
<1>2. k = i
  BY <1>1, ProvisionOnce
<1>3. Following(ProvisionScript) = IF k = Len(ProvisionScript) THEN Idle ELSE ProvisionScript[k + 1]
  BY DEF Following
<1>4. Len(ProvisionScript) = 24
  BY ProvisionOrder DEF P
<1> HIDE DEF k
<1> QED
  BY <1>2, <1>3, <1>4 DEF Provisioned, P

\* A statement of teardown.py is followed by the next, the last by none.
LEMMA TeardownMoves ==
    ASSUME NEW i \in 1..15, pc = T[i], TornDown
    PROVE  pc' = IF i = 15 THEN Idle ELSE T[i + 1]
<1> DEFINE k == CHOOSE k \in DOMAIN TeardownScript : TeardownScript[k] = pc
<1>1. k \in 1..15 /\ T[k] = pc
  BY TeardownOrder DEF T
<1>2. k = i
  BY <1>1, TeardownOnce
<1>3. Following(TeardownScript) = IF k = Len(TeardownScript) THEN Idle ELSE TeardownScript[k + 1]
  BY DEF Following
<1>4. Len(TeardownScript) = 15
  BY TeardownOrder DEF T
<1> HIDE DEF k
<1> QED
  BY <1>2, <1>3, <1>4 DEF TornDown, T

-----------------------------------------------------------------------------
(* The invariant *)

\* Past the saving of the names, or anywhere in teardown.py.
Armed == (\E i \in 16..24 : pc = P[i]) \/ (\E i \in 1..15 : pc = T[i])

Recorded == Armed => record # NoRecord

\* What teardown.py has verified is gone unless it is noted as a remainder.
Verified ==
    /\ pc \in {T[14], T[15]} /\ "rds" \notin remains => account["rds"] = "absent"
    /\ pc = T[15] /\ "cache" \notin remains => account["cache"] = "absent"

IInv == TypeOK /\ Recorded /\ Verified /\ BillablesLeaveARecord

\* The invariant holds of an empty account.
LEMMA InitIInv == Init => IInv
<1> SUFFICES ASSUME Init PROVE IInv
  OBVIOUS
<1>1. TypeOK
  BY ProvisioningAssumption
     DEF Init, TypeOK, Resources, Billable, Stages, SubnetGroups, SecurityGroups, Steps
<1>2. pc = Idle /\ ~Armed
  <2>1. pc = Idle
    BY DEF Init
  <2>2. \A i \in 16..24 : pc # P[i]
    BY <2>1, ScriptsApart
  <2>3. \A i \in 1..15 : pc # T[i]
    BY <2>1, ScriptsApart
  <2> QED
    BY <2>1, <2>2, <2>3 DEF Armed
<1>3. \A b \in Billable : account[b] = "absent"
  BY DEF Init, Resources
<1> QED
  BY <1>1, <1>2, <1>3, ScriptsApart DEF IInv, Recorded, Verified, BillablesLeaveARecord, Armed

\* A statement of provision.py keeps the invariant, if it keeps the record or
\* leaves one.
LEMMA ProvisionKeeps ==
    ASSUME IInv, TypeOK', NEW i \in 1..24, pc = P[i],
           Provisioned \/ pc' = Idle,
           (i # 15 /\ record' = record) \/ record' # NoRecord,
           BillablesLeaveARecord'
    PROVE  IInv'
<1>1. pc' = Idle \/ (i # 24 /\ pc' = P[i + 1])
  BY ProvisionMoves
<1>2. \A j \in 1..15 : pc' # T[j]
  <2>1. CASE pc' = Idle
    BY <2>1, ScriptsApart
  <2>2. CASE i # 24 /\ pc' = P[i + 1]
    BY <2>2, ScriptsApart
  <2> QED
    BY <1>1, <2>1, <2>2
<1>3. Recorded'
  <2> SUFFICES ASSUME NEW j \in 16..24, pc' = P[j], record' = record, i # 15
               PROVE  record # NoRecord
    BY <1>2 DEF Recorded, Armed
  <2>1. i # 24 /\ P[j] = P[i + 1]
    BY <1>1, ScriptsApart
  <2>2. j = i + 1
    BY <2>1, ProvisionOnce
  <2> QED
    BY <2>2 DEF IInv, Recorded, Armed
<1> QED
  BY <1>2, <1>3 DEF IInv, Verified

\* A statement of teardown.py keeps the invariant, if it creates nothing,
\* forgets no remains and leaves the record.
LEMMA TeardownKeeps ==
    ASSUME IInv, TypeOK', NEW i \in 1..15, pc = T[i], record' = record,
           pc' = Idle \/
             (/\ TornDown /\ i # 15
              /\ remains \subseteq remains'
              /\ \A b \in Billable : account[b] = "absent" => account'[b] = "absent"
              /\ i = 13 => "rds" \in remains' \/ account'["rds"] = "absent"
              /\ i = 14 => "cache" \in remains' \/ account'["cache"] = "absent")
    PROVE  IInv'
<1>1. record' # NoRecord
  BY DEF IInv, Recorded, Armed
<1>2. Verified'
  <2>1. CASE pc' = Idle
    <3>1. pc' \notin {T[14], T[15]}
      BY <2>1, ScriptsApart
    <3> QED
      BY <3>1 DEF Verified
  <2>2. CASE pc' # Idle
    <3>1. pc' = T[i + 1] /\ i + 1 \in 1..15
      BY <2>2, TeardownMoves
    <3>2. pc' = T[14] => i = 13
      <4> SUFFICES ASSUME T[i + 1] = T[14] PROVE i + 1 = 14
        BY <3>1
      <4> QED
        BY <3>1, TeardownOnce
    <3>3. pc' = T[15] => i = 14
      <4> SUFFICES ASSUME T[i + 1] = T[15] PROVE i + 1 = 15
        BY <3>1
      <4> QED
        BY <3>1, TeardownOnce
    <3> QED
      BY <2>2, <3>2, <3>3 DEF Verified, IInv, Billable
  <2> QED
    BY <2>1, <2>2
<1> QED
  BY <1>1, <1>2 DEF IInv, Recorded, BillablesLeaveARecord

-----------------------------------------------------------------------------
(* provision.py *)

\* The names of the things, for the type of what a statement leaves.
LEMMA Kinds ==
    /\ Billable \subseteq Resources /\ Stages \subseteq Resources
    /\ SubnetGroups \subseteq Resources /\ SecurityGroups \subseteq Resources
    /\ Stages \cap Billable = {} /\ SubnetGroups \cap Billable = {}
    /\ SecurityGroups \cap Billable = {}
    /\ Billable \subseteq Keys /\ "rds" \in Billable /\ "cache" \in Billable
BY DEF Billable, Stages, SubnetGroups, SecurityGroups, Resources, Keys

\* A statement of provision.py leads to one of it, or to its end.
LEMMA ProvisionedTyped ==
    ASSUME NEW i \in 1..24, pc = P[i], Provisioned \/ pc' = Idle
    PROVE  pc' \in Steps
BY ProvisionMoves, ProvisionOrder DEF Steps, InScript, P

\* teardown.py moves among the statements there are.
LEMMA TornDownTyped ==
    ASSUME NEW i \in 1..15, pc = T[i], TornDown \/ pc' = Idle
    PROVE  pc' \in Steps
BY TeardownMoves, TeardownOrder DEF Steps, InScript, T

\* What is created is recorded already, by name.
LEMMA CreateStep == ASSUME IInv, NEW r \in Resources, Create(r) PROVE IInv'
<1>1. pc[1] = "create" /\ pc # P[15]
  BY ProvisionOrder DEF Create
<1>2. PICK i \in 1..24 : pc = P[i]
  BY <1>1, WhichScript DEF IInv, TypeOK
<1>3. i # 15
  BY <1>1, <1>2
<1>4. TypeOK'
  BY <1>2, ProvisionedTyped, Kinds DEF IInv, TypeOK, Create
<1>5. BillablesLeaveARecord'
  BY DEF IInv, TypeOK, BillablesLeaveARecord, Create
<1> QED
  BY <1>2, <1>3, <1>4, <1>5, ProvisionKeeps DEF Create

\* An instance is created only where the record is there.
LEMMA CreateInstanceStep ==
    ASSUME IInv, NEW b \in Billable, CreateInstance(b) PROVE IInv'
<1>1. pc[1] = "create" /\ pc # P[15]
  BY ProvisionOrder DEF CreateInstance
<1>2. PICK i \in 1..24 : pc = P[i]
  BY <1>1, WhichScript DEF IInv, TypeOK
<1>3. i # 15
  BY <1>1, <1>2
<1>4. TypeOK'
  BY <1>2, ProvisionedTyped, Kinds, ProvisioningAssumption DEF IInv, TypeOK, CreateInstance
<1>5. Armed
  <2>1. pc = P[17] \/ pc = P[21]
    BY ProvisionInstances DEF CreateInstance, Billable
  <2> QED
    BY <2>1 DEF Armed
<1>6. record # NoRecord /\ record' = record
  BY <1>5 DEF IInv, Recorded, CreateInstance
<1> QED
  BY <1>2, <1>3, <1>4, <1>6, ProvisionKeeps DEF CreateInstance, BillablesLeaveARecord

\* The statements that touch neither an instance nor the record.
LEMMA QuietStep ==
    ASSUME IInv,
           \/ \E g \in {"db_sg", "cache_sg"} : Allow(g)
           \/ Attach \/ WritePassword \/ WriteEndpoints
           \/ \E b \in Billable : Await(b) \/ AwaitFails(b)
    PROVE  IInv'
<1>1. pc[1] \in {"allow", "attach", "env", "await"} /\ pc # P[15]
  BY ProvisionOrder DEF Allow, Attach, WritePassword, WriteEndpoints, Await, AwaitFails
<1>2. PICK i \in 1..24 : pc = P[i]
  BY <1>1, WhichScript DEF IInv, TypeOK
<1>3. i # 15
  BY <1>1, <1>2
<1>4. account' = account /\ record' = record /\ (Provisioned \/ pc' = Idle)
  BY DEF Allow, Attach, WritePassword, WriteEndpoints, Await, AwaitFails, Exits
<1>5. pc' \in Steps
  BY <1>2, <1>4, ProvisionedTyped
<1>6. holders' \subseteq SecurityGroups
  <2>1. holders \subseteq SecurityGroups
    BY DEF IInv, TypeOK
  <2>2. holders' = holders \/ \E g \in {"db_sg", "cache_sg", "app_sg"} : holders' = holders \cup {g}
    BY DEF Allow, Attach, WritePassword, WriteEndpoints, Await, AwaitFails
  <2> QED
    BY <2>1, <2>2 DEF SecurityGroups
<1>7. envfile' \in [password : 0..MAX_PROVISIONS, endpoints : BOOLEAN]
  <2>1. \/ envfile' = envfile
        \/ \E e \in BOOLEAN : envfile' = [password |-> runs, endpoints |-> e]
    BY DEF Allow, Attach, WritePassword, WriteEndpoints, Await, AwaitFails
  <2> QED
    BY <2>1 DEF IInv, TypeOK
<1>8. /\ stack' \subseteq Keys /\ remains' \subseteq Billable
      /\ UNCHANGED <<dbpassword, runs, faults>>
  BY DEF IInv, TypeOK, Allow, Attach, WritePassword, WriteEndpoints, Await, AwaitFails, Exits
<1>9. TypeOK'
  BY <1>4, <1>5, <1>6, <1>7, <1>8 DEF IInv, TypeOK
<1> QED
  BY <1>2, <1>3, <1>4, <1>9, ProvisionKeeps DEF IInv, BillablesLeaveARecord

\* A checkpoint adds to the record.
LEMMA CheckpointStep ==
    ASSUME IInv, NEW key \in Keys \cup {"names"}, Checkpoint(key) PROVE IInv'
<1>1. pc[1] = "save"
  BY DEF Checkpoint
<1>2. PICK i \in 1..24 : pc = P[i]
  BY <1>1, WhichScript DEF IInv, TypeOK
<1>3. stack' \subseteq Keys /\ stack' # {} /\ record' = stack'
  BY Kinds DEF IInv, TypeOK, Checkpoint
<1>4. record' # NoRecord
  BY <1>3 DEF NoRecord, Keys, Stages, Billable
<1>5. TypeOK'
  BY <1>2, <1>3, ProvisionedTyped DEF IInv, TypeOK, Checkpoint
<1> QED
  BY <1>2, <1>4, <1>5, ProvisionKeeps DEF Checkpoint, BillablesLeaveARecord

-----------------------------------------------------------------------------
(* teardown.py *)

\* A deletion was accepted, or the refusal ends the script.
LEMMA DropInstanceStep ==
    ASSUME IInv, NEW b \in Billable, DropInstance(b) \/ DropRefused(b) PROVE IInv'
<1>1. pc[1] = "drop"
  BY DEF DropInstance, DropRefused
<1>2. PICK i \in 1..15 : pc = T[i]
  BY <1>1, WhichScript DEF IInv, TypeOK
<1>3. i \notin {13, 14, 15}
  BY <1>1, <1>2, TeardownOrder
<1>4. TypeOK'
  BY <1>2, TornDownTyped, Kinds DEF IInv, TypeOK, DropInstance, DropRefused, Exits
<1>5. CASE DropInstance(b)
  <2>1. \A c \in Billable : account[c] = "absent" => account'[c] = "absent"
    BY <1>5, Kinds DEF IInv, TypeOK, DropInstance
  <2> QED
    BY <1>2, <1>3, <1>4, <1>5, <2>1, TeardownKeeps DEF DropInstance
<1>6. CASE DropRefused(b)
  BY <1>2, <1>4, <1>6, TeardownKeeps DEF DropRefused, Exits
<1> QED
  BY <1>5, <1>6

\* The resources that do not bill.
LEMMA DropOtherStep ==
    ASSUME IInv,
           \/ \E r \in Stages : DropStage(r)
           \/ \E r \in SubnetGroups : DropSubnets(r)
           \/ \E g \in SecurityGroups : DropGroup(g)
           \/ KeepBucket
           \/ \E b \in Billable : Gone(b)
    PROVE  IInv'
<1>1. pc[1] \in {"drop", "gone"}
  BY DEF DropStage, DropSubnets, DropGroup, KeepBucket, Gone
<1>2. PICK i \in 1..15 : pc = T[i]
  BY <1>1, WhichScript DEF IInv, TypeOK
<1>3. i \notin {13, 14, 15}
  BY <1>1, <1>2, TeardownOrder
<1>4. /\ account' = account \/ \E r \in Resources \ Billable :
                                  account' = [account EXCEPT ![r] = "absent"]
      /\ (TornDown /\ UNCHANGED <<remains, stack>>) \/ Exits
      /\ UNCHANGED <<dbpassword, record, envfile, runs, faults>>
      /\ holders' \subseteq holders
  BY Kinds DEF DropStage, DropSubnets, DropGroup, KeepBucket, Gone
<1>5. pc' \in Steps
  BY <1>2, <1>4, TornDownTyped DEF Exits
<1>6. TypeOK'
  BY <1>4, <1>5 DEF IInv, TypeOK, Exits
<1>7. \A b \in Billable : account[b] = "absent" => account'[b] = "absent"
  BY <1>4, Kinds DEF IInv, TypeOK
<1> QED
  BY <1>2, <1>3, <1>4, <1>6, <1>7, TeardownKeeps DEF Exits

\* What is not gone is noted as a remainder.
LEMMA VerifyGoneStep == ASSUME IInv, NEW b \in Billable, VerifyGone(b) PROVE IInv'
<1>1. pc[1] = "verify"
  BY DEF VerifyGone
<1>2. PICK i \in 1..15 : pc = T[i]
  BY <1>1, WhichScript DEF IInv, TypeOK
<1>3. i # 15 /\ (i = 13 => b = "rds") /\ (i = 14 => b = "cache")
  BY <1>1, <1>2, TeardownOrder DEF VerifyGone
<1>4. TypeOK'
  BY <1>2, TornDownTyped, ProvisioningAssumption DEF IInv, TypeOK, VerifyGone
<1>5. remains \subseteq remains' /\ (b \in remains' \/ account'[b] = "absent")
  BY DEF VerifyGone
<1> QED
  BY <1>2, <1>3, <1>4, <1>5, TeardownKeeps DEF VerifyGone

\* The record goes only when both instances were seen to be gone.
LEMMA UnlinkStep == ASSUME IInv, Unlink PROVE IInv'
<1>1. pc = T[15]
  BY TeardownOrder DEF Unlink
<1>2. pc' = Idle
  BY DEF Unlink, Exits
<1>3. TypeOK'
  BY <1>2 DEF IInv, TypeOK, Unlink, Exits, Steps
<1>4. ~Armed' /\ pc' \notin {T[14], T[15]}
  BY <1>2, ScriptsApart DEF Armed
<1>5. remains = {} => \A b \in Billable : account[b] = "absent"
  BY <1>1 DEF IInv, Verified, Billable
<1> QED
  BY <1>3, <1>4, <1>5
     DEF IInv, Recorded, Verified, BillablesLeaveARecord, Unlink

-----------------------------------------------------------------------------
(* The operator and the account *)

\* A script starts at its first statement; teardown.py only with a record.
LEMMA StartStep == ASSUME IInv, Provision \/ Teardown PROVE IInv'
<1>1. pc' = P[1] \/ (pc' = T[1] /\ record # NoRecord)
  BY ProvisionOrder, TeardownOrder DEF Provision, Teardown, P, T
<1>2. record' = record /\ account' = account
  BY DEF Provision, Teardown
<1>3. TypeOK'
  BY <1>1, ProvisionOrder, TeardownOrder, ProvisioningAssumption
     DEF IInv, TypeOK, Provision, Teardown, Steps, InScript, P, T
<1>4. pc' \notin {T[14], T[15]}
  <2>1. P[1] # T[14] /\ P[1] # T[15]
    BY ScriptsApart
  <2>2. T[1] # T[14] /\ T[1] # T[15]
    BY TeardownOnce
  <2> QED
    BY <1>1, <2>1, <2>2
<1>5. Armed' => record # NoRecord
  <2>1. CASE pc' = P[1]
    <3>1. \A j \in 16..24 : P[1] # P[j]
      BY ProvisionOnce
    <3> QED
      BY <2>1, <3>1, ScriptsApart DEF Armed
  <2> QED
    BY <1>1, <2>1
<1> QED
  BY <1>2, <1>3, <1>4, <1>5 DEF IInv, Recorded, Verified, BillablesLeaveARecord

\* An instance settles: none comes into being by that.
LEMMA SettlesStep == ASSUME IInv, NEW b \in Billable, Settles(b) PROVE IInv'
<1>1. TypeOK'
  BY Kinds DEF IInv, TypeOK, Settles, script
<1>2. \A c \in Billable : account[c] = "absent" => account'[c] = "absent"
  BY DEF IInv, TypeOK, Settles
<1> QED
  BY <1>1, <1>2 DEF IInv, Recorded, Armed, Verified, BillablesLeaveARecord, Settles, script, Billable

\* An interruption leaves account and record as they are.
LEMMA InterruptedStep == ASSUME IInv, Interrupted PROVE IInv'
<1>1. pc' = Idle
  BY DEF Interrupted, Exits
<1>2. TypeOK'
  BY <1>1, ProvisioningAssumption DEF IInv, TypeOK, Interrupted, Exits, Steps
<1>3. ~Armed' /\ pc' \notin {T[14], T[15]}
  BY <1>1, ScriptsApart DEF Armed
<1> QED
  BY <1>2, <1>3 DEF IInv, Recorded, Verified, BillablesLeaveARecord, Interrupted

\* Every step keeps the invariant.
LEMMA NextIInv == IInv /\ [Next]_vars => IInv'
<1> SUFFICES ASSUME IInv, [Next]_vars PROVE IInv'
  OBVIOUS
<1>1. CASE Provision \/ Teardown
  BY <1>1, StartStep
<1>2. CASE ProvisionStep
  BY <1>2, CreateStep, CreateInstanceStep, QuietStep, CheckpointStep DEF ProvisionStep
<1>3. CASE TeardownStep
  BY <1>3, DropInstanceStep, DropOtherStep, VerifyGoneStep, UnlinkStep DEF TeardownStep
<1>4. CASE Interrupted
  BY <1>4, InterruptedStep
<1>5. CASE \E b \in Billable : Settles(b)
  BY <1>5, SettlesStep
<1>6. CASE UNCHANGED vars
  BY <1>6 DEF vars, script, IInv, TypeOK, Recorded, Armed, Verified, BillablesLeaveARecord
<1> QED
  BY <1>1, <1>2, <1>3, <1>4, <1>5, <1>6 DEF Next

-----------------------------------------------------------------------------
(* Theorems *)

\* Every reachable state of the scripts, the account and the two files is well
\* typed.
THEOREM TypeCorrect == Spec => []TypeOK
<1>1. IInv => TypeOK
  BY DEF IInv
<1> QED
  BY <1>1, InitIInv, NextIInv, PTL DEF Spec

\* E-033: stack.json is not discarded while an instance exists, for any number
\* of runs of both scripts and of interruptions, wherever they come.
THEOREM RecordHolds == Spec => []BillablesLeaveARecord
<1>1. IInv => BillablesLeaveARecord
  BY DEF IInv
<1> QED
  BY <1>1, InitIInv, NextIInv, PTL DEF Spec

-----------------------------------------------------------------------------
(* The order of the deletions *)

Accepted(b) == account[b] \in {"deleting", "absent"}

\* Past the statement that deletes an instance, its deletion was accepted.
Ordered ==
    \A i \in 1..15 : pc = T[i] => /\ i > 1 => Accepted("rds")
                                  /\ i > 2 => Accepted("cache")

\* The instances are the first things that teardown.py deletes.
LEMMA InstancesFirst == T[1] = <<"drop", "rds">> /\ T[2] = <<"drop", "cache">>
BY DEF T, TeardownScript, Bills, Free, Wait, Groups, Verify

\* Nothing starts an instance while teardown.py runs, and the statement that
\* deletes one fails or has the deletion accepted.
LEMMA TeardownAccepts ==
    ASSUME TypeOK, TeardownStep
    PROVE  /\ pc' = Idle \/ TornDown
           /\ \A b \in Billable : Accepted(b) => Accepted(b)'
           /\ \A b \in Billable : pc = <<"drop", b>> => pc' = Idle \/ Accepted(b)'
<1>1. CASE \E b \in Billable : DropInstance(b)
  BY <1>1, Kinds DEF DropInstance, TypeOK, Accepted
<1>2. CASE \E b \in Billable : DropRefused(b) \/ Gone(b) \/ VerifyGone(b)
  BY <1>2 DEF DropRefused, Exits, Gone, VerifyGone, Accepted
<1>3. CASE \/ \E r \in Stages : DropStage(r)
           \/ \E r \in SubnetGroups : DropSubnets(r)
           \/ \E g \in SecurityGroups : DropGroup(g)
  <2>1. /\ account' = account \/ \E r \in Resources \ Billable :
                                    account' = [account EXCEPT ![r] = "absent"]
        /\ TornDown \/ Exits
        /\ \A b \in Billable : pc # <<"drop", b>>
    BY <1>3, Kinds DEF DropStage, DropSubnets, DropGroup
  <2> QED
    BY <2>1, Kinds DEF TypeOK, Accepted, Exits
<1>4. CASE KeepBucket \/ Unlink
  BY <1>4 DEF KeepBucket, Unlink, Exits, Accepted, Billable
<1> QED
  BY <1>1, <1>2, <1>3, <1>4 DEF TeardownStep

\* Outside of teardown.py nothing is claimed.
LEMMA OrderStays == ASSUME IInv, Ordered, [Next]_vars PROVE Ordered'
<1>1. CASE (\E i \in 1..24 : pc' = P[i]) \/ pc' \in {Idle, T[1]}
  <2> SUFFICES ASSUME NEW i \in 1..15, pc' = T[i] PROVE i = 1
    BY DEF Ordered
  <2>1. pc' # Idle /\ ~(\E j \in 1..24 : pc' = P[j])
    BY ScriptsApart
  <2>2. T[i] = T[1]
    BY <1>1, <2>1
  <2> QED
    BY <2>2, TeardownOnce
<1>2. CASE Provision \/ Teardown
  BY <1>1, <1>2, ProvisionOrder, TeardownOrder DEF Provision, Teardown, P, T
<1>3. CASE Interrupted
  BY <1>1, <1>3 DEF Interrupted, Exits
<1>4. CASE ProvisionStep
  <2>1. pc[1] \in {"create", "allow", "attach", "save", "env", "await"}
    BY <1>4 DEF ProvisionStep, Create, CreateInstance, Await, AwaitFails, Allow, Checkpoint,
         Attach, WritePassword, WriteEndpoints
  <2>2. PICK i \in 1..24 : pc = P[i]
    BY <2>1, WhichScript DEF IInv, TypeOK
  <2>3. Provisioned \/ pc' = Idle
    BY <1>4 DEF ProvisionStep, Create, CreateInstance, Await, AwaitFails, Allow, Checkpoint,
         Attach, WritePassword, WriteEndpoints, Exits
  <2> QED
    BY <1>1, <2>2, <2>3, ProvisionMoves
<1>5. CASE TeardownStep
  <2>1. pc[1] \in {"drop", "gone", "verify", "unlink"}
    BY <1>5 DEF TeardownStep, DropInstance, DropRefused, Gone, VerifyGone, DropStage,
         DropSubnets, DropGroup, KeepBucket, Unlink
  <2>2. PICK i \in 1..15 : pc = T[i]
    BY <2>1, WhichScript DEF IInv, TypeOK
  <2>3. CASE pc' = Idle
    BY <1>1, <2>3
  <2>4. CASE pc' # Idle
    <3>1. pc' = T[i + 1] /\ i + 1 \in 1..15 /\ TornDown
      BY <1>5, <2>2, <2>4, TeardownAccepts, TeardownMoves DEF IInv
    <3>2. Accepted("rds")'
      BY <1>5, <2>2, <2>4, TeardownAccepts, InstancesFirst, Kinds DEF IInv, Ordered
    <3>3. i > 1 => Accepted("cache")'
      BY <1>5, <2>2, <2>4, TeardownAccepts, InstancesFirst, Kinds DEF IInv, Ordered
    <3>4. \A j \in 1..15 : pc' = T[j] => j = i + 1
      BY <3>1, TeardownOnce
    <3> QED
      BY <3>2, <3>3, <3>4 DEF Ordered
  <2> QED
    BY <2>3, <2>4
<1>6. CASE \E b \in Billable : Settles(b)
  <2>1. pc' = pc /\ \A b \in Billable : Accepted(b) => Accepted(b)'
    BY <1>6 DEF IInv, TypeOK, Settles, script, Accepted
  <2> QED
    BY <2>1, Kinds DEF Ordered
<1>7. CASE UNCHANGED vars
  BY <1>7 DEF vars, script, Ordered, Accepted
<1> QED
  BY <1>2, <1>3, <1>4, <1>5, <1>6, <1>7 DEF Next

\* "The billable resources go FIRST" (teardown.py): nothing free is deleted
\* before the deletion of both instances was accepted, over every interruption
\* and repeated run.
THEOREM FirstHolds == Spec => BillablesGoFirst
<1> DEFINE First == \A r \in Resources \ Billable :
                       account[r] = "available" /\ account'[r] = "absent"
                          => \A b \in Billable : account[b] \in {"deleting", "absent"}
<1>1. Init => Ordered
  BY ScriptsApart DEF Init, Ordered
<1>2. IInv /\ Ordered /\ [Next]_vars => [First]_vars
  <2> SUFFICES ASSUME IInv, Ordered, [Next]_vars, NEW r \in Resources \ Billable,
                      account[r] = "available", account'[r] = "absent", NEW b \in Billable
               PROVE  Accepted(b)
    BY DEF Accepted
  <2>1. \/ \E x \in Stages : DropStage(x)
        \/ \E x \in SubnetGroups : DropSubnets(x)
        \/ \E g \in SecurityGroups : DropGroup(g)
    BY DEF Next, vars, script, ProvisionStep, TeardownStep, Provision, Teardown, Interrupted,
         Settles, Create, CreateInstance, Await, AwaitFails, Allow, Checkpoint, Attach,
         WritePassword, WriteEndpoints, DropInstance, DropRefused, Gone, VerifyGone, KeepBucket,
         Unlink, Exits, IInv, TypeOK
  <2>2. pc[1] = "drop" /\ pc # <<"drop", "rds">> /\ pc # <<"drop", "cache">>
    BY <2>1, Kinds DEF DropStage, DropSubnets, DropGroup
  <2>3. PICK i \in 1..15 : pc = T[i]
    BY <2>2, WhichScript DEF IInv, TypeOK
  <2>4. i > 2
    BY <2>2, <2>3, InstancesFirst
  <2> QED
    BY <2>3, <2>4 DEF Ordered, Billable
<1>3. IInv /\ Ordered /\ [Next]_vars => Ordered'
  BY OrderStays
<1> QED
  BY <1>1, <1>2, <1>3, InitIInv, NextIInv, PTL DEF Spec, BillablesGoFirst
=============================================================================
