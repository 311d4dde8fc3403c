---------------------------- MODULE Provisioning ----------------------------
(***************************************************************************)
(* infra/provision.py and infra/teardown.py over one AWS account, the      *)
(* stack record (infra/stack.json) and the .env file.  The operator runs   *)
(* one script at a time; each is a list of calls and file writes, may be   *)
(* interrupted between any two of them, and may be run again.  RDS and     *)
(* ElastiCache take their time to come up and to disappear, and they are   *)
(* the two resources that bill by the hour.                                *)
(***************************************************************************)
EXTENDS Integers, Sequences

CONSTANTS
    MAX_PROVISIONS,     \* bound: runs of provision.py
    MAX_FAULTS          \* bound: interruptions and failing calls

ASSUME ProvisioningAssumption == MAX_PROVISIONS \in Nat /\ MAX_FAULTS \in Nat

VARIABLES
    account,    \* the state of each resource in the account
    holders,    \* what refers to the app security group
    dbpassword, \* the run of provision.py whose password opens the database
    record,     \* the keys of stack.json, or NoRecord
    envfile,    \* the .env file: whose password, and are the endpoints in it
    pc,         \* the statement the running script is about to execute
    stack,      \* the script's copy of the record
    remains,    \* teardown: still_billing
    runs,       \* runs of provision.py so far
    faults

script == <<pc, stack, remains>>
vars == <<account, holders, dbpassword, record, envfile, script, runs, faults>>

-----------------------------------------------------------------------------
Billable == {"rds", "cache"}
Stages == {"queues", "topic", "bucket"}
SubnetGroups == {"db_subnets", "cache_subnets"}
SecurityGroups == {"app_sg", "db_sg", "cache_sg"}
Resources == Billable \cup Stages \cup SubnetGroups \cup SecurityGroups

NoRecord == {"no record"}
Keys == {"groups"} \cup Stages \cup Billable

\* main() of provision.py, statement by statement.
ProvisionScript_unnamed ==
    << <<"create", "app_sg">>, <<"create", "db_sg">>, <<"create", "cache_sg">>,
       <<"allow", "db_sg">>, <<"allow", "cache_sg">>, <<"attach", "app_sg">>,
       <<"save", "groups">>,
       <<"create", "queues">>, <<"save", "queues">>,
       <<"create", "topic">>, <<"save", "topic">>,
       <<"create", "bucket">>, <<"save", "bucket">>,
       <<"env", "password">>,
       <<"create", "db_subnets">>, <<"create", "rds">>, <<"await", "rds">>, <<"save", "rds">>,
       <<"create", "cache_subnets">>, <<"create", "cache">>, <<"await", "cache">>,
       <<"save", "cache">>, <<"env", "endpoints">> >>

ProvisionScript ==
    << <<"create", "app_sg">>, <<"create", "db_sg">>, <<"create", "cache_sg">>,
       <<"allow", "db_sg">>, <<"allow", "cache_sg">>, <<"attach", "app_sg">>,
       <<"save", "groups">>,
       <<"create", "queues">>, <<"save", "queues">>,
       <<"create", "topic">>, <<"save", "topic">>,
       <<"create", "bucket">>, <<"save", "bucket">>,
       <<"env", "password">>, <<"save", "names">>,
       <<"create", "db_subnets">>, <<"create", "rds">>, <<"await", "rds">>, <<"save", "rds">>,
       <<"create", "cache_subnets">>, <<"create", "cache">>, <<"await", "cache">>,
       <<"save", "cache">>, <<"env", "endpoints">> >>

\* main() of teardown.py.  The mutants discard the record before the wait
\* (E-033), and delete what is free first.
Wait == << <<"gone", "rds">>, <<"gone", "cache">> >>
Free == << <<"drop", "queues">>, <<"drop", "topic">>, <<"drop", "bucket">> >>
Bills == << <<"drop", "rds">>, <<"drop", "cache">> >>
Verify == << <<"verify", "rds">>, <<"verify", "cache">>, <<"unlink", "record">> >>
Groups == << <<"drop", "db_subnets">>, <<"drop", "cache_subnets">>,
             <<"drop", "db_sg">>, <<"drop", "cache_sg">>, <<"drop", "app_sg">> >>

TeardownScript_forgetful == Bills \o Free \o << <<"unlink", "record">> >> \o Wait \o Groups
TeardownScript_freefirst == Free \o Bills \o Wait \o Groups \o Verify
TeardownScript == Bills \o Free \o Wait \o Groups \o Verify

Idle == <<"idle", "">>

InScript(steps) == {steps[i] : i \in DOMAIN steps}
Steps == {Idle} \cup InScript(ProvisionScript) \cup InScript(TeardownScript)

\* The statement after the current one.
Following(steps) ==
    LET i == CHOOSE i \in DOMAIN steps : steps[i] = pc
    IN  IF i = Len(steps) THEN Idle ELSE steps[i + 1]

Provisioned == pc' = Following(ProvisionScript)
TornDown == pc' = Following(TeardownScript)

\* The script exits, by the end of main(), a traceback or sys.exit().
Exits == pc' = Idle /\ stack' = {} /\ remains' = {}

TypeOK ==
    /\ account \in [Resources -> {"absent", "creating", "available", "deleting"}]
    /\ \A r \in Resources \ Billable : account[r] \in {"absent", "available"}
    /\ holders \subseteq SecurityGroups
    /\ dbpassword \in 0..MAX_PROVISIONS
    /\ record = NoRecord \/ record \subseteq Keys
    /\ envfile \in [password : 0..MAX_PROVISIONS, endpoints : BOOLEAN]
    /\ pc \in Steps
    /\ stack \subseteq Keys
    /\ remains \subseteq Billable
    /\ runs \in 0..MAX_PROVISIONS
    /\ faults \in 0..MAX_FAULTS

-----------------------------------------------------------------------------
Init ==
    /\ account = [r \in Resources |-> "absent"]
    /\ holders = {}
    /\ dbpassword = 0
    /\ record = NoRecord
    /\ envfile = [password |-> 0, endpoints |-> FALSE]
    /\ pc = Idle
    /\ stack = {}
    /\ remains = {}
    /\ runs = 0
    /\ faults = 0

(* provision.py *)

\* stack starts as a new dict: what stack.json held before is not read.
Provision ==
    /\ pc = Idle
    /\ runs < MAX_PROVISIONS
    /\ runs' = runs + 1
    /\ pc' = Head(ProvisionScript)
    /\ UNCHANGED <<account, holders, dbpassword, record, envfile, stack, remains, faults>>

\* ensure_sg, create_queues, create_topic, create_bucket and the subnet
\* groups: created, or found and reused.
Create(r) ==
    /\ pc = <<"create", r>>
    /\ r \notin Billable
    /\ account' = [account EXCEPT ![r] = "available"]
    /\ Provisioned
    /\ UNCHANGED <<holders, dbpassword, record, envfile, stack, remains, runs, faults>>

\* create_db_instance and create_cache_cluster: an instance that exists is
\* left as it is, its master password included.
CreateInstance(b) ==
    /\ pc = <<"create", b>>
    /\ IF account[b] = "absent"
       THEN /\ account' = [account EXCEPT ![b] = "creating"]
            /\ dbpassword' = IF b = "rds" THEN runs ELSE dbpassword
       ELSE UNCHANGED <<account, dbpassword>>
    /\ Provisioned
    /\ UNCHANGED <<holders, record, envfile, stack, remains, runs, faults>>

\* allow_from_sg: the rule of a data group names the app group.
Allow(g) ==
    /\ pc = <<"allow", g>>
    /\ holders' = holders \cup {g}
    /\ Provisioned
    /\ UNCHANGED <<account, dbpassword, record, envfile, stack, remains, runs, faults>>

\* attach_sg_to_self: skipped off EC2, and a refusal is only logged.
Attach ==
    /\ pc = <<"attach", "app_sg">>
    /\ holders' \in {holders, holders \cup {"app_sg"}}
    /\ Provisioned
    /\ UNCHANGED <<account, dbpassword, record, envfile, stack, remains, runs, faults>>

\* checkpoint(): the names of the instances are saved before they exist.  The
\* mutant saves them under a key teardown.py does not know.
Checkpoint_literal(key) ==
    /\ pc = <<"save", key>>
    /\ stack' = stack \cup {key}
    /\ record' = stack'
    /\ Provisioned
    /\ UNCHANGED <<account, holders, dbpassword, envfile, remains, runs, faults>>

Checkpoint(key) ==
    /\ pc = <<"save", key>>
    /\ stack' = stack \cup (IF key = "names" THEN Billable ELSE {key})
    /\ record' = stack'
    /\ Provisioned
    /\ UNCHANGED <<account, holders, dbpassword, envfile, remains, runs, faults>>

Await(b) ==
    /\ pc = <<"await", b>>
    /\ account[b] = "available"
    /\ Provisioned
    /\ UNCHANGED <<account, holders, dbpassword, record, envfile, stack, remains, runs, faults>>

\* The instance is on its way out, or gone: the waiter raises.
AwaitFails(b) ==
    /\ pc = <<"await", b>>
    /\ account[b] \in {"deleting", "absent"}
    /\ Exits
    /\ UNCHANGED <<account, holders, dbpassword, record, envfile, runs, faults>>

\* make_password() on every run; .env is rewritten whole.
WritePassword ==
    /\ pc = <<"env", "password">>
    /\ envfile' = [password |-> runs, endpoints |-> FALSE]
    /\ Provisioned
    /\ UNCHANGED <<account, holders, dbpassword, record, stack, remains, runs, faults>>

WriteEndpoints ==
    /\ pc = <<"env", "endpoints">>
    /\ envfile' = [password |-> runs, endpoints |-> TRUE]
    /\ Exits
    /\ UNCHANGED <<account, holders, dbpassword, record, runs, faults>>

-----------------------------------------------------------------------------
(* teardown.py *)

\* Without stack.json it exits; without one of the keys the plan prints, it
\* dies of a KeyError.
Teardown ==
    /\ pc = Idle
    /\ record # NoRecord
    /\ Stages \cup Billable \subseteq record
    /\ stack' = record
    /\ pc' = Head(TeardownScript)
    /\ UNCHANGED <<account, holders, dbpassword, record, envfile, remains, runs, faults>>

\* delete_db_instance, delete_cache_cluster.
DropInstance(b) ==
    /\ pc = <<"drop", b>>
    /\ account' = IF account[b] = "absent" THEN account ELSE [account EXCEPT ![b] = "deleting"]
    /\ TornDown
    /\ UNCHANGED <<holders, dbpassword, record, envfile, stack, remains, runs, faults>>

\* An instance that is coming up or going down may be refused, with a code
\* swallow() does not expect.
DropRefused(b) ==
    /\ pc = <<"drop", b>>
    /\ account[b] \in {"creating", "deleting"}
    /\ Exits
    /\ UNCHANGED <<account, holders, dbpassword, record, envfile, runs, faults>>

DropStage(r) ==
    /\ pc = <<"drop", r>>
    /\ account' = [account EXCEPT ![r] = "absent"]
    /\ TornDown
    /\ UNCHANGED <<holders, dbpassword, record, envfile, stack, remains, runs, faults>>

\* --keep-audit, or a ClientError: "bucket cleanup skipped".
KeepBucket ==
    /\ pc = <<"drop", "bucket">>
    /\ TornDown
    /\ UNCHANGED <<account, holders, dbpassword, record, envfile, stack, remains, runs, faults>>

\* The waiter for RDS returns when it is gone; the loop for the cache also
\* after sixty tries.
Gone(b) ==
    /\ pc = <<"gone", b>>
    /\ account[b] = "absent" \/ b = "cache"
    /\ TornDown
    /\ UNCHANGED <<account, holders, dbpassword, record, envfile, stack, remains, runs, faults>>

Occupant == [db_subnets |-> "rds", cache_subnets |-> "cache", db_sg |-> "rds", cache_sg |-> "cache"]

\* A subnet group that is occupied is refused, and that is not swallowed.
DropSubnets(r) ==
    /\ pc = <<"drop", r>>
    /\ IF account[Occupant[r]] = "absent"
       THEN /\ account' = [account EXCEPT ![r] = "absent"]
            /\ TornDown
            /\ UNCHANGED <<stack, remains>>
       ELSE account' = account /\ Exits
    /\ UNCHANGED <<holders, dbpassword, record, envfile, runs, faults>>

\* DependencyViolation is swallowed: a group in use stays.
InUse(g) ==
    IF g = "app_sg" THEN holders # {} ELSE account[Occupant[g]] # "absent"

DropGroup(g) ==
    /\ pc = <<"drop", g>>
    /\ IF InUse(g)
       THEN UNCHANGED <<account, holders>>
       ELSE /\ account' = [account EXCEPT ![g] = "absent"]
            /\ holders' = holders \ {g}
    /\ TornDown
    /\ UNCHANGED <<dbpassword, record, envfile, stack, remains, runs, faults>>

\* describe: an instance that exists, or cannot be asked about, remains.
VerifyGone(b) ==
    /\ pc = <<"verify", b>>
    /\ \/ remains' = (IF account[b] = "absent" THEN remains ELSE remains \cup {b}) /\ faults' = faults
       \/ remains' = remains \cup {b} /\ faults < MAX_FAULTS /\ faults' = faults + 1
    /\ TornDown
    /\ UNCHANGED <<account, holders, dbpassword, record, envfile, stack, runs>>

Unlink ==
    /\ pc = <<"unlink", "record">>
    /\ record' = IF remains = {} THEN NoRecord ELSE record
    /\ Exits
    /\ UNCHANGED <<account, holders, dbpassword, envfile, runs, faults>>

-----------------------------------------------------------------------------
(* The account and the operator *)

Settles(b) ==
    /\ account[b] \in {"creating", "deleting"}
    /\ account' = [account EXCEPT ![b] = IF @ = "creating" THEN "available" ELSE "absent"]
    /\ UNCHANGED <<holders, dbpassword, record, envfile, script, runs, faults>>

\* A waiter times out, the SSH session drops, Ctrl-C, a throttled call.
Interrupted ==
    /\ pc # Idle
    /\ faults < MAX_FAULTS
    /\ faults' = faults + 1
    /\ Exits
    /\ UNCHANGED <<account, holders, dbpassword, record, envfile, runs>>

ProvisionStep ==
    \/ \E r \in Resources : Create(r)
    \/ \E b \in Billable : CreateInstance(b) \/ Await(b) \/ AwaitFails(b)
    \/ \E g \in {"db_sg", "cache_sg"} : Allow(g)
    \/ \E key \in Keys \cup {"names"} : Checkpoint(key)
    \/ Attach \/ WritePassword \/ WriteEndpoints

TeardownStep ==
    \/ \E b \in Billable : DropInstance(b) \/ DropRefused(b) \/ Gone(b) \/ VerifyGone(b)
    \/ \E r \in Stages : DropStage(r)
    \/ \E r \in SubnetGroups : DropSubnets(r)
    \/ \E g \in SecurityGroups : DropGroup(g)
    \/ KeepBucket \/ Unlink

Next ==
    \/ Provision \/ Teardown \/ ProvisionStep \/ TeardownStep \/ Interrupted
    \/ \E b \in Billable : Settles(b)

Spec == Init /\ [][Next]_vars

(* Fairness.  A running script goes on, instances settle, and the operator  *)
(* runs teardown.py again until stack.json is gone, as its last message     *)
(* asks.                                                                    *)
Fairness ==
    /\ WF_vars(ProvisionStep \/ TeardownStep)
    /\ WF_vars(Teardown)
    /\ \A b \in Billable : WF_vars(Settles(b))

FairSpec == Spec /\ Fairness

-----------------------------------------------------------------------------
(* Properties *)

\* E-033: stack.json is not discarded while something still bills, over every
\* interruption, repeated run and unreadable status.
BillablesLeaveARecord ==
    (\E b \in Billable : account[b] # "absent") => record # NoRecord

\* "The billable resources go FIRST" (teardown.py): nothing free is deleted
\* while the deletion of an instance has not been accepted.
BillablesGoFirst ==
    [][\A r \in Resources \ Billable :
          account[r] = "available" /\ account'[r] = "absent"
             => \A b \in Billable : account[b] \in {"deleting", "absent"}]_vars

\* E-034: a provision interrupted anywhere leaves a record teardown.py can
\* act on, and repeated runs of it end the billing.  A second run of
\* provision.py may break that: see RecordCoversBillables.
BillingEnds ==
    [](runs <= 1) => <>[](\A b \in Billable : account[b] = "absent")
-----------------------------------------------------------------------------
(* What the documents promise and the code does not keep *)

\* provision.py, E-034: "the record always describes at least as much as
\* exists", of the instances that bill.
RecordCoversBillables ==
    \A b \in Billable : account[b] # "absent" => b \in record

\* SETUP.md: "Every step below is idempotent": after another run of
\* provision.py the password in .env still opens the database.
PasswordOpensDatabase ==
    account["rds"] # "absent" /\ envfile.endpoints => envfile.password = dbpassword
=============================================================================
