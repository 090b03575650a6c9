------------------------------- MODULE Deploy -------------------------------
(***************************************************************************)
(* The deployment commands, sdk/tasks/index.ts and sdk/tasks/deploy: each  *)
(* compiles and publishes packages one after the other, and configures     *)
(* what it publishes for the first time.  Whether it is the first time is  *)
(* read from the chain just before, and kept nowhere, so that a command    *)
(* that is interrupted and run again decides anew.  Operators run commands *)
(* at any time from checkouts of their own, again until they are done and  *)
(* whenever the sources have changed.                                      *)
(***************************************************************************)
EXTENDS Naturals, Sequences, FiniteSets

CONSTANTS
  Operators,    \* who runs commands, each with a checkout of its own
  Staffs,       \* for each staff, the commands each operator may run
  MaxTroubles   \* for each staff, the bound on interruptions, compilations that
                \* fail and changes of the sources, together

AllCommands == {"layerzero", "oracle", "bridge", "counter"}

ASSUME DeployAssumption ==
  /\ Staffs \subseteq [Operators -> SUBSET AllCommands]
  /\ MaxTroubles \in [Staffs -> Nat]

VARIABLES
  staff,        \* staff[o]: the commands an operator runs, chosen once
  sources,      \* version of the sources
  build,        \* build[o][p]: version compiled in a checkout that may still be
                \* published, 0 for none
  version,      \* version[p]: version of a package on the chain, 0 for none
  permit,       \* whether the ACL of msglib_cap has the layerzero account
  last_version, \* GlobalStore.last_version of msglib_cap, its major number
  uln,          \* version ULN is registered with, 0 for none
  initialized,  \* whether endpoint::init was executed
  executors,    \* ExecutorRegistry.executors: how many times executor_v1's type
  run,          \* run[o]: what the command of an operator is at
  reported,     \* reported[c]: latest sources a command ended well with
  halfway,      \* packages whose first deployment was cut off, or failed amid
                \* another one, before their configuration was complete
  faults,       \* interruptions so far
  misbuilds     \* failed compilations so far

Commands == UNION {staff[o] : o \in Operators}

chain == <<version, permit, last_version, uln, initialized, executors>>
bounds == <<faults, misbuilds>>
deployVars == <<staff, sources, build, chain, run, reported, halfway, bounds>>

Apps == {"oracle", "bridge", "counter"}

Packages ==
  {"zro", "layerzero_common", "msglib_auth", "executor_auth", "msglib_v1_1",
   "msglib_v2", "executor_v2", "layerzero"} \union Apps

\* What Move.toml names as local dependencies, and theirs.
Dependencies(p) ==
  CASE p \in {"zro", "layerzero_common"} -> {}
    [] p \in {"msglib_auth", "executor_auth"} -> {"layerzero_common"}
    [] p \in {"msglib_v1_1", "msglib_v2"} ->
         {"layerzero_common", "msglib_auth", "zro"}
    [] p = "executor_v2" -> {"layerzero_common", "executor_auth"}
    [] p = "layerzero" -> Packages \ (Apps \union {"layerzero"})
    [] p \in Apps -> Packages \ Apps

------------------------------------------------------------------------------
\* The steps of the commands.  A "configure" step names its package.

Compile(p) == [op |-> "compile", package |-> p, call |-> ""]
InitialDeploy(p) == [op |-> "check", package |-> p, call |-> ""]
Publish(p) == [op |-> "publish", package |-> p, call |-> ""]
IfInitial(p, call) == [op |-> "configure", package |-> p, call |-> call]

\* The entry functions the SDK calls to configure.
allowPayload == "msglib_cap::allow"
initialize == "endpoint::init"
registerExecutor == "endpoint::register_executor"
initializeReceive == "uln_receive::init"

CompileAndDeploy(p) == <<Compile(p), Publish(p)>>

deployZro == CompileAndDeploy("zro")

deployCommon ==
  CompileAndDeploy("layerzero_common")
    \o <<Compile("msglib_auth"), InitialDeploy("msglib_auth"),
         Publish("msglib_auth"), IfInitial("msglib_auth", allowPayload)>>
    \o CompileAndDeploy("executor_auth")

deployMsglibV1_1 == CompileAndDeploy("msglib_v1_1")

deployMsglibV2 == CompileAndDeploy("msglib_v2")

deployExecutorV2 == CompileAndDeploy("executor_v2")

\* Mutant of deployLayerzero: whether it is the first time is read too late.
CheckedAfterwards ==
  <<Compile("layerzero"), Publish("layerzero"), InitialDeploy("layerzero"),
    IfInitial("layerzero", initialize),
    IfInitial("layerzero", registerExecutor),
    IfInitial("layerzero", initializeReceive)>>

\* Mutant of deployLayerzero: ULN is set up before the endpoint.
ReceiveFirst ==
  <<Compile("layerzero"), InitialDeploy("layerzero"), Publish("layerzero"),
    IfInitial("layerzero", initializeReceive),
    IfInitial("layerzero", initialize),
    IfInitial("layerzero", registerExecutor)>>

deployLayerzero ==
  <<Compile("layerzero"), InitialDeploy("layerzero"), Publish("layerzero"),
    IfInitial("layerzero", initialize),
    IfInitial("layerzero", registerExecutor),
    IfInitial("layerzero", initializeReceive)>>

deployOracle == CompileAndDeploy("oracle")

deployBridge == CompileAndDeploy("bridge")

deployCounter == CompileAndDeploy("counter")

StepsOf(command) ==
  CASE command = "layerzero" ->
         deployZro \o deployCommon \o deployMsglibV1_1 \o deployMsglibV2
           \o deployExecutorV2 \o deployLayerzero
    [] command = "oracle" -> deployOracle
    [] command = "bridge" -> deployBridge
    [] command = "counter" -> deployCounter

\* Mutant of compileFailureCaught: every application's command goes on.
AppFailureCaught(p) == p \in Apps

\* A compilation that fails ends the command; deployCounter only logs it and
\* goes on with what an earlier one left in the build directory.
compileFailureCaught(p) == p = "counter"

------------------------------------------------------------------------------
\* The transactions: what they assert and what they do.

Published(p) == version[p] # 0

\* Mutant of initialDeploy: every deployment is taken for the first.
AlwaysInitial(p) == TRUE

initialDeploy(p) == ~Published(p)

\* Dependencies must be there, and init_module, which is executed when a
\* module is published for the first time, must not abort: that of the bridge
\* and the counter registers a user application at the endpoint.
Publishable(p) ==
  /\ \A q \in Dependencies(p) : Published(q)
  /\ p \in {"bridge", "counter"} /\ ~Published(p) => initialized

\* uln_receive::init, msglib_cap::new_version and register_msglib: the next
\* major version, for an account that was allowed one.
register_msglib ==
  /\ initialized /\ permit /\ uln = 0
  /\ last_version' = last_version + 1
  /\ uln' = last_version'
  /\ permit' = FALSE

allow ==
  /\ ~permit
  /\ permit' = TRUE
  /\ UNCHANGED <<last_version, uln, initialized, executors>>

init ==
  /\ ~initialized
  /\ initialized' = TRUE
  /\ UNCHANGED <<permit, last_version, uln, executors>>

register_executor ==
  /\ initialized /\ executors = 0
  /\ executors' = executors + 1
  /\ UNCHANGED <<permit, last_version, uln, initialized>>

init_uln_receive ==
  /\ register_msglib
  /\ UNCHANGED <<initialized, executors>>

Executable(call) ==
  CASE call = "msglib_cap::allow" -> ~permit
    [] call = "endpoint::init" -> ~initialized
    [] call = "endpoint::register_executor" -> initialized /\ executors = 0
    [] call = "uln_receive::init" -> initialized /\ permit /\ uln = 0

Executed(call) ==
  CASE call = "msglib_cap::allow" -> allow
    [] call = "endpoint::init" -> init
    [] call = "endpoint::register_executor" -> register_executor
    [] call = "uln_receive::init" -> init_uln_receive

------------------------------------------------------------------------------
\* The commands at work.

DeployInit ==
  /\ staff \in Staffs
  /\ sources = 1
  /\ build = [o \in Operators |-> [p \in Packages |-> 0]]
  /\ version = [p \in Packages |-> 0]
  /\ permit = FALSE
  /\ last_version = 0 /\ uln = 0
  /\ initialized = FALSE
  /\ executors = 0
  /\ run = [o \in Operators |->
              [state |-> "idle", command |-> "", steps |-> <<>>,
               initial |-> FALSE, started |-> 0, alone |-> FALSE]]
  /\ reported = [c \in AllCommands |-> 0]
  /\ halfway = {}
  /\ faults = 0 /\ misbuilds = 0

\* There may be more trouble.
Upset == (sources - 1) + faults + misbuilds < MaxTroubles[staff]

Running(o) == run[o].state = "running"

\* The command an operator runs and how far it is; "alone" is whether nobody
\* else ran one meanwhile.
Start(o, command) ==
  /\ command \in staff[o]
  /\ ~Running(o)
  /\ reported[command] < sources
  /\ LET others == {x \in Operators \ {o} : Running(x)}
     IN  run' = [x \in Operators |->
                   IF x = o
                   THEN [state |-> "running", command |-> command,
                         steps |-> StepsOf(command), initial |-> FALSE,
                         started |-> sources, alone |-> others = {}]
                   ELSE [run[x] EXCEPT !.alone = FALSE]]
  /\ UNCHANGED <<staff, sources, build, chain, reported, halfway, bounds>>

\* The next step of o's command is of this kind.
AtStep(o, op) ==
  /\ Running(o)
  /\ run[o].steps # <<>>
  /\ Head(run[o].steps).op = op

Package(o) == Head(run[o].steps).package

GoOn(o) == run' = [run EXCEPT ![o].steps = Tail(@)]

Fail(o) == run' = [run EXCEPT ![o].state = "failed", ![o].steps = <<>>]

CompilePackage(o) ==
  /\ AtStep(o, "compile")
  /\ build' = [build EXCEPT ![o][Package(o)] = sources]
  /\ GoOn(o)
  /\ UNCHANGED <<staff, sources, chain, reported, halfway, bounds>>

MiscompilePackage(o) ==
  /\ AtStep(o, "compile")
  /\ Upset
  /\ misbuilds' = misbuilds + 1
  /\ IF compileFailureCaught(Package(o)) THEN GoOn(o) ELSE Fail(o)
  /\ UNCHANGED <<staff, sources, build, chain, reported, halfway, faults>>

Check(o) ==
  /\ AtStep(o, "check")
  /\ run' = [run EXCEPT ![o].steps = Tail(@),
                        ![o].initial = initialDeploy(Package(o))]
  /\ UNCHANGED <<staff, sources, build, chain, reported, halfway, bounds>>

\* The modules are read from the build directory, then published.  What every
\* later run overwrites before it reads it is forgotten.
PublishPackage(o) ==
  /\ AtStep(o, "publish")
  /\ build[o][Package(o)] # 0
  /\ Publishable(Package(o))
  /\ version' = [version EXCEPT ![Package(o)] = build[o][Package(o)]]
  /\ build' = [build EXCEPT ![o][Package(o)] =
                 IF compileFailureCaught(Package(o)) THEN @ ELSE 0]
  /\ GoOn(o)
  /\ UNCHANGED <<staff, sources, permit, last_version, uln, initialized,
                 executors, reported, halfway, bounds>>

\* There is nothing to read, or the transaction aborts.
PublishFails(o) ==
  /\ AtStep(o, "publish")
  /\ build[o][Package(o)] = 0 \/ ~Publishable(Package(o))
  /\ Fail(o)
  /\ UNCHANGED <<staff, sources, build, chain, reported, halfway, bounds>>

Configure(o) ==
  /\ AtStep(o, "configure")
  /\ run[o].initial
  /\ Executed(Head(run[o].steps).call)
  /\ GoOn(o)
  /\ UNCHANGED <<staff, sources, build, version, reported, halfway, bounds>>

ConfigureFails(o) ==
  /\ AtStep(o, "configure")
  /\ run[o].initial
  /\ ~Executable(Head(run[o].steps).call)
  /\ Fail(o)
  /\ halfway' = IF run[o].alone THEN halfway ELSE halfway \union {Package(o)}
  /\ UNCHANGED <<staff, sources, build, chain, reported, bounds>>

SkipConfigure(o) ==
  /\ AtStep(o, "configure")
  /\ ~run[o].initial
  /\ GoOn(o)
  /\ UNCHANGED <<staff, sources, build, chain, reported, halfway, bounds>>

Report(o) ==
  /\ Running(o)
  /\ run[o].steps = <<>>
  /\ run' = [run EXCEPT ![o].state = "reported"]
  /\ reported' = [reported EXCEPT ![run[o].command] =
                    IF @ < run[o].started THEN run[o].started ELSE @]
  /\ UNCHANGED <<staff, sources, build, chain, halfway, bounds>>

\* The process dies, or its last transaction was executed and the answer is
\* lost, or the next one does not get through: the rest is not done.
Interrupt(o) ==
  /\ Running(o)
  /\ run[o].steps # <<>>
  /\ Upset
  /\ faults' = faults + 1
  /\ halfway' = IF Head(run[o].steps).op = "configure" /\ run[o].initial
                THEN halfway \union {Package(o)} ELSE halfway
  /\ run' = [run EXCEPT ![o].state = "interrupted", ![o].steps = <<>>]
  /\ UNCHANGED <<staff, sources, build, chain, reported, misbuilds>>

EditSources ==
  /\ Upset
  /\ sources' = sources + 1
  /\ UNCHANGED <<staff, build, chain, run, reported, halfway, bounds>>

Step(o) ==
  \/ CompilePackage(o) \/ MiscompilePackage(o) \/ Check(o)
  \/ PublishPackage(o) \/ PublishFails(o)
  \/ Configure(o) \/ ConfigureFails(o) \/ SkipConfigure(o)
  \/ Report(o)

DeployNext ==
  \/ \E o \in Operators :
       Step(o) \/ Interrupt(o) \/ \E c \in AllCommands : Start(o, c)
  \/ EditSources

\* A command that runs goes on, and an operator tries each command again and
\* again until it has ended well.
DeployFairness ==
  \A o \in Operators :
    /\ WF_deployVars(Step(o))
    /\ \A c \in UNION {s[o] : s \in Staffs} : SF_deployVars(Start(o, c))

DeploySpec == DeployInit /\ [][DeployNext]_deployVars /\ DeployFairness

------------------------------------------------------------------------------
Configured == initialized /\ executors = 1 /\ uln = 1

\* Someone is in the midst of the configuration of a package.
Configuring(p) ==
  \E o \in Operators :
    /\ Running(o)
    /\ run[o].initial
    /\ \E i \in 1 .. Len(run[o].steps) :
         run[o].steps[i] = IfInitial(p, run[o].steps[i].call)

\* "Deployed Layerzero!!" means a working endpoint: once the command has ended
\* well, endpoint, executor and ULN 1.0 are set up, unless a first deployment
\* was cut off between publishing and configuring, which no later run makes
\* good, or is still at it.
ReportedIsConfigured ==
  reported["layerzero"] # 0 =>
    \/ Configured
    \/ halfway # {}
    \/ Configuring("layerzero")

\* The packages are in an order in which each finds what it needs: a command
\* that ran alone fails only if its sources did not compile, if an earlier
\* first deployment was cut off, or, for an app, if there is no endpoint yet.
NoFailureUnprovoked ==
  \A o \in Operators :
    run[o].state = "failed" /\ run[o].alone =>
      \/ misbuilds > 0
      \/ halfway # {}
      \/ run[o].command \in Apps /\ reported["layerzero"] = 0

\* What a command that ran alone reports deployed was compiled from the sources
\* it started with, or later ones: no package is left at, or put back to, an
\* older build.  Only the counter may be, after a compilation that failed.
ReportedIsCurrent ==
  \A o \in Operators :
    run[o].state = "reported" /\ run[o].alone =>
      \A i \in 1 .. Len(StepsOf(run[o].command)) :
        LET p == StepsOf(run[o].command)[i].package
        IN  \/ version[p] >= run[o].started
            \/ p = "counter" /\ misbuilds > 0

Deployed ==
  /\ Configured
  /\ \A c \in Commands : \A i \in 1 .. Len(StepsOf(c)) :
       Published(StepsOf(c)[i].package)

\* Operators that run the commands again until they end well get everything
\* deployed and configured, however often they were interrupted, if it was
\* never between the publishing of a package and its configuration.
RerunsDeploy == <>[]Deployed \/ <>(halfway # {})

==============================================================================
