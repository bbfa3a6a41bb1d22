------------------------------ MODULE Options ------------------------------
(***************************************************************************)
(* What a scheduler process runs with: how Setup (cmd/app/server.go) and   *)
(* the options (cmd/app/options) put together the defaults, the            *)
(* configuration file and the flags of a command line, and which command   *)
(* lines they refuse.                                                      *)
(*                                                                         *)
(* A command line is a record: config, whether --config names a file; file,*)
(* what that file sets; flags, what the flags set; write, whether there is *)
(* --write-config-to.  Of each group of settings that is treated alike     *)
(* there is one: profiling stands for the deprecated flags that a file     *)
(* makes void, times for the durations of the leader election.             *)
(*                                                                         *)
(* A definition marked (Slip: ...) is no part of the model: it is the one  *)
(* after it with a plausible mistake, to see that a property notices.      *)
(***************************************************************************)

\* The flags of the set "leader election", and those of the set "deprecated" that
\* have a place in the configuration.
LeaderElectionFlags == {"elect", "times"}
DeprecatedFlags == {"profiling"}

Default == [elect |-> TRUE, times |-> "valid", delay |-> FALSE, profiling |-> TRUE,
            podMaxInUnschedulable |-> "5m"]

Override(cfg, with, settings) ==
    [s \in DOMAIN cfg |-> IF s \in settings \cap DOMAIN with THEN with[s] ELSE cfg[s]]

ApplyDeprecated(cfg, flags) == Override(cfg, flags, DeprecatedFlags)
ApplyLeaderElectionTo(cfg, flags) == Override(cfg, flags, LeaderElectionFlags)

\* The decoder fills in the defaults of what the file leaves out.
LoadConfigFromFile(file) == Override(Default, file, DOMAIN Default)

\* (Slip: the flags are applied before the file is read.)
ApplyFlagsFirst(line) ==
    LET cfg == ApplyLeaderElectionTo(ApplyDeprecated(Default, line.flags), line.flags)
    IN Override(IF line.config THEN Override(cfg, line.file, DOMAIN Default) ELSE cfg,
                line.flags, {"podMaxInUnschedulable"})

\* With a file the deprecated flags are void, but for the one that no file can set.
ApplyTo(line) ==
    LET cfg == IF line.config THEN LoadConfigFromFile(line.file)
               ELSE ApplyDeprecated(Default, line.flags)
    IN Override(ApplyLeaderElectionTo(cfg, line.flags), line.flags, {"podMaxInUnschedulable"})

\* The durations of an election that does not take place do not matter.
Valid(cfg) == cfg.elect => cfg.times = "valid"

\* Validate has seen the defaults only, and what a file says is validated together
\* with the flags; the flags without a file are not.
Setup(line) ==
    /\ Valid(Default)
    /\ line.config => Valid(ApplyTo(line))
    /\ ~line.write

\* NewLeaderElector looks at the durations once more.
NewLeaderElector(cfg) == cfg.times = "valid"

-----------------------------------------------------------------------------

\* What the command line asks for, as the help of the flags has it: a flag goes
\* before the file and the file before the default, but a deprecated flag "is ignored
\* if a config file is specified".
AskedFor(line, s) ==
    LET heeded == s \in DOMAIN line.flags /\ (line.config => s \notin DeprecatedFlags)
    IN CASE heeded -> line.flags[s]
         [] ~heeded /\ line.config /\ s \in DOMAIN line.file -> line.file[s]
         [] OTHER -> Default[s]
=============================================================================
