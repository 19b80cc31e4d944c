----------------------------- MODULE HpcOptions -----------------------------
(***************************************************************************)
(* How many cores a solve gets: resolve_hpc_options                        *)
(* (src/worker/ansys_analyze_worker/hpc.py) reads three environment        *)
(* variables for every task, and PyAEDT's Setup.analyze acts on the three  *)
(* numbers in a way that couples them.                                     *)
(***************************************************************************)
EXTENDS Integers

CONSTANT MaxCount  \* bound: the largest number an operator types or a machine has

ASSUME CountAssumption == MaxCount \in Nat \ {0}

VARIABLES
    env,      \* what the operator typed into ANSYS_ANALYZE_CORES, _TASKS and _GPUS
    cpuCount, \* os.cpu_count()
    options,  \* the keyword arguments of the latest analyze()
    solved    \* whether there has been one

vars == <<env, cpuCount, options, solved>>

(* Python's None. No resolved option is 0: zero is a spelling of "aedt".   *)
None == 0

Setting == {"cores", "tasks", "gpus"}

(* An unset variable, or its text: 0 stands for every spelling that asks   *)
(* for AEDT's own settings, -1 for a negative number or no number at all.  *)
Raw == [given : BOOLEAN, value : -1..MaxCount]

MeansUseAedtSettings(raw) == raw.given /\ raw.value = 0

(* A resolver that lets a negative number through (a fault to be noticed). *)
ResolveEnvOptionUnchecked(raw, default) ==
    IF ~raw.given THEN default ELSE raw.value

ResolveEnvOption(raw, default) ==
    IF ~raw.given \/ raw.value < 0 THEN default
    ELSE IF MeansUseAedtSettings(raw) THEN None
    ELSE raw.value

(* A coupling guard that overlooks GPUs (a fault to be noticed).           *)
ResolveHpcOptionsNoGpuGuard(e, cpus) ==
    LET cores == ResolveEnvOption(e["cores"], cpus)
        tasks == ResolveEnvOption(e["tasks"], None)
        gpus  == ResolveEnvOption(e["gpus"], None)
    IN  [cores |-> IF cores = None /\ tasks # None THEN cpus ELSE cores,
         tasks |-> tasks, gpus |-> gpus]

(* A guard that overrides the dialog's cores even alone (likewise).        *)
ResolveHpcOptionsNeverDialog(e, cpus) ==
    LET cores == ResolveEnvOption(e["cores"], cpus)
    IN  [cores |-> IF cores = None THEN cpus ELSE cores,
         tasks |-> ResolveEnvOption(e["tasks"], None),
         gpus  |-> ResolveEnvOption(e["gpus"], None)]

ResolveHpcOptions(e, cpus) ==
    LET cores == ResolveEnvOption(e["cores"], cpus)
        tasks == ResolveEnvOption(e["tasks"], None)
        gpus  == ResolveEnvOption(e["gpus"], None)
    IN  [cores |-> IF cores = None /\ (tasks # None \/ gpus # None) THEN cpus ELSE cores,
         tasks |-> tasks, gpus |-> gpus]

(* PyAEDT: an argument that is not None makes it build the HPC settings    *)
(* from its own template, in which everything not passed is a default.     *)
Rebuilds(o) == \E s \in Setting : o[s] # None

Dialog == -1    \* AEDT solves with what its dialog says
Template == -2  \* AEDT solves with the template's four cores

SolveCores(o) ==
    IF ~Rebuilds(o) THEN Dialog
    ELSE IF o.cores = None THEN Template ELSE o.cores

-----------------------------------------------------------------------------
Init ==
    /\ env \in [Setting -> Raw]
    /\ cpuCount \in 0..MaxCount
    /\ options = [s \in Setting |-> None]
    /\ solved = FALSE

(* run_setups resolves them afresh for each task.                          *)
Resolve ==
    /\ options' = ResolveHpcOptions(env, cpuCount)
    /\ solved' = TRUE
    /\ UNCHANGED <<env, cpuCount>>

Spec == Init /\ [][Resolve]_vars

-----------------------------------------------------------------------------
(* The three are what the operator can type, a machine can have and        *)
(* analyze() accepts.                                                      *)
OptionsTypeOK ==
    /\ env \in [Setting -> Raw]
    /\ cpuCount \in 0..MaxCount
    /\ options \in [Setting -> 0..MaxCount]
    /\ solved \in BOOLEAN

(* No combination of the variables, mistyped ones included, silently       *)
(* solves on the template's four cores while the machine's number of       *)
(* processors is known.                                                    *)
NeverTemplateCores == cpuCount # None => SolveCores(options) # Template

(* A solve runs on the dialog's cores only when the operator asked for     *)
(* that, or when no number is known; a number typed is the number used.    *)
CoresAsAsked ==
    solved =>
        LET raw == env["cores"]
        IN  /\ SolveCores(options) = Dialog => MeansUseAedtSettings(raw) \/ cpuCount = None
            /\ raw.given /\ raw.value > 0 => SolveCores(options) = raw.value
            /\ (MeansUseAedtSettings(raw) /\ ~\E s \in {"tasks", "gpus"} : options[s] # None) =>
                    SolveCores(options) = Dialog
=============================================================================
