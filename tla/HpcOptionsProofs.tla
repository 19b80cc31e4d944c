-------------------------- MODULE HpcOptionsProofs --------------------------
(***************************************************************************)
(* The resolved options for every number an operator may type and every    *)
(* number of processors.                                                   *)
(***************************************************************************)
EXTENDS HpcOptions, TLAPS

(* What one variable resolves to.                                          *)
LEMMA Resolved ==
  ASSUME NEW raw \in Raw, NEW default \in 0..MaxCount
  PROVE  /\ ResolveEnvOption(raw, default) \in 0..MaxCount
         /\ raw.given /\ raw.value > 0 => ResolveEnvOption(raw, default) = raw.value
         /\ ResolveEnvOption(raw, default) = None => MeansUseAedtSettings(raw) \/ default = None
         /\ MeansUseAedtSettings(raw) => ResolveEnvOption(raw, default) = None
  BY CountAssumption DEF Raw, ResolveEnvOption, MeansUseAedtSettings, None

(* What the three resolve to together: the coupling leaves the template's  *)
(* cores out as long as the number of processors is known.                 *)
LEMMA ResolvedTogether ==
  ASSUME NEW e \in [Setting -> Raw], NEW cpus \in 0..MaxCount
  PROVE  LET o == ResolveHpcOptions(e, cpus)
         IN  /\ o \in [Setting -> 0..MaxCount]
             /\ cpus # None => SolveCores(o) # Template
             /\ SolveCores(o) = Dialog => MeansUseAedtSettings(e["cores"]) \/ cpus = None
             /\ e["cores"].given /\ e["cores"].value > 0 => SolveCores(o) = e["cores"].value
             /\ (MeansUseAedtSettings(e["cores"]) /\ ~\E s \in {"tasks", "gpus"} : o[s] # None) =>
                    SolveCores(o) = Dialog
  <1> DEFINE cores == ResolveEnvOption(e["cores"], cpus)
             tasks == ResolveEnvOption(e["tasks"], None)
             gpus == ResolveEnvOption(e["gpus"], None)
             chosen == IF cores = None /\ (tasks # None \/ gpus # None) THEN cpus ELSE cores
             o == ResolveHpcOptions(e, cpus)
  <1>1. /\ e["cores"] \in Raw /\ e["tasks"] \in Raw /\ e["gpus"] \in Raw
        /\ None \in 0..MaxCount /\ cpus \in 0..MaxCount
    BY CountAssumption DEF Setting, None
  <1>2. /\ cores \in 0..MaxCount /\ tasks \in 0..MaxCount /\ gpus \in 0..MaxCount
        /\ e["cores"].given /\ e["cores"].value > 0 => cores = e["cores"].value
        /\ cores = None => MeansUseAedtSettings(e["cores"]) \/ cpus = None
        /\ MeansUseAedtSettings(e["cores"]) => cores = None
    BY <1>1, Resolved
  <1>3. o = [cores |-> chosen, tasks |-> tasks, gpus |-> gpus]
    BY DEF ResolveHpcOptions
  <1>4. o["cores"] = chosen /\ o["tasks"] = tasks /\ o["gpus"] = gpus
    BY <1>3
  <1>5. chosen \in 0..MaxCount
    BY <1>1, <1>2
  <1>6. o \in [Setting -> 0..MaxCount]
    BY <1>2, <1>3, <1>5 DEF Setting
  <1>7. Rebuilds(o) <=> chosen # None \/ tasks # None \/ gpus # None
    BY <1>4 DEF Rebuilds, Setting
  <1>8. SolveCores(o) = IF ~(chosen # None \/ tasks # None \/ gpus # None) THEN Dialog
                        ELSE IF chosen = None THEN Template ELSE chosen
    BY <1>4, <1>7 DEF SolveCores
  <1> HIDE DEF cores, tasks, gpus, o
  <1>9. cpus # None => SolveCores(o) # Template
    BY <1>2, <1>5, <1>8 DEF Dialog, Template, None
  <1>10. SolveCores(o) = Dialog => MeansUseAedtSettings(e["cores"]) \/ cpus = None
    BY <1>2, <1>5, <1>8 DEF Dialog, Template, None
  <1>11. e["cores"].given /\ e["cores"].value > 0 => SolveCores(o) = e["cores"].value
    BY <1>1, <1>2, <1>5, <1>8 DEF Dialog, Template, None, Raw
  <1>12. ASSUME MeansUseAedtSettings(e["cores"]), ~\E s \in {"tasks", "gpus"} : o[s] # None
         PROVE  SolveCores(o) = Dialog
    BY <1>2, <1>4, <1>8, <1>12 DEF Dialog, None
  <1> QED
    BY <1>6, <1>9, <1>10, <1>11, <1>12 DEF o

(* The options in use are those of the variables.                          *)
Agreed == OptionsTypeOK /\ NeverTemplateCores /\ CoresAsAsked

LEMMA AlwaysAgreed == Spec => []Agreed
  <1>1. ASSUME Init
        PROVE  Agreed
    <2>1. options = [s \in Setting |-> None] /\ solved = FALSE /\ env \in [Setting -> Raw] /\ cpuCount \in 0..MaxCount
      BY <1>1 DEF Init
    <2>2. solved \in BOOLEAN /\ CoresAsAsked
      BY Zenon, <2>1 DEF CoresAsAsked
    <2>3. options \in [Setting -> 0..MaxCount]
      BY <2>1, CountAssumption DEF None
    <2>4. SolveCores(options) = Dialog
      BY <2>1 DEF SolveCores, Rebuilds
    <2> QED
      BY <2>1, <2>2, <2>3, <2>4 DEF Agreed, OptionsTypeOK, NeverTemplateCores, Dialog, Template
  <1>2. ASSUME Agreed, [Resolve]_vars
        PROVE  Agreed'
    <2>1. CASE Resolve
      <3>1. /\ env' = env /\ cpuCount' = cpuCount /\ env \in [Setting -> Raw] /\ cpuCount \in 0..MaxCount
            /\ options' = ResolveHpcOptions(env, cpuCount)
        BY <1>2, <2>1 DEF Resolve, Agreed, OptionsTypeOK
      <3>2. solved' \in BOOLEAN
        BY Zenon, <2>1 DEF Resolve
      <3>3. OptionsTypeOK'
        BY <3>1, <3>2, ResolvedTogether DEF OptionsTypeOK
      <3>4. NeverTemplateCores' /\ CoresAsAsked'
        BY <3>1, ResolvedTogether DEF NeverTemplateCores, CoresAsAsked, SolveCores, Rebuilds
      <3> QED
        BY <3>3, <3>4 DEF Agreed
    <2>2. CASE UNCHANGED vars
      BY <1>2, <2>2 DEF vars, Agreed, OptionsTypeOK, NeverTemplateCores, CoresAsAsked, SolveCores, Rebuilds
    <2> QED
      BY <1>2, <2>1, <2>2
  <1> QED
    BY <1>1, <1>2, PTL DEF Spec

(* Whatever is typed into the three variables, mistyped numbers included,  *)
(* no solve silently runs on the four cores of PyAEDT's template while the *)
(* number of processors is known.                                          *)
THEOREM NoTemplate == Spec => []NeverTemplateCores
  BY AlwaysAgreed, PTL DEF Agreed

(* A number typed for the cores is the number a solve uses, and AEDT's own *)
(* dialog decides only when that was asked for or nothing is known.        *)
THEOREM CoresUsed == Spec => []CoresAsAsked
  BY AlwaysAgreed, PTL DEF Agreed

(* The options stay what analyze() accepts.                                *)
THEOREM OptionsTyped == Spec => []OptionsTypeOK
  BY AlwaysAgreed, PTL DEF Agreed
=============================================================================
