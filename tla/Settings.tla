------------------------------ MODULE Settings ------------------------------
(***************************************************************************)
(* The settings that clients may change while a daemon runs: where their   *)
(* values come from at a start, and the steps in which a set-config makes  *)
(* them live and persists them (internal/engine/settings.go, with the      *)
(* configuration, the validation, the patch and the store around it).      *)
(*                                                                         *)
(* Each daemon process holds live values; the rows of the settings table   *)
(* are shared.  Values are naturals: 0 is the empty directory, no segments *)
(* or the unnamed priority for a key of Required, and "unlimited" for a    *)
(* rate.                                                                   *)
(***************************************************************************)
EXTENDS Naturals, Sequences, SequencesExt

CONSTANTS
    Holders,    \* the daemon processes
    Callers,    \* the handlers that may run a set-config
    Keys,       \* the keys, in the order SetSettings persists them
    Required,   \* the keys whose value must not be 0
    Defaulted,  \* those of them of which an empty value in the configuration means the default
    Configs,    \* the configurations a daemon may find at its start, layer by layer
    Patches     \* Patches[h]: what h's client may ask for, the present fields of a set-config

KeySet == Range(Keys)

ASSUME SettingsAssumption ==
    /\ Keys # <<>> /\ Keys \in Seq(KeySet)
    /\ Defaulted \subseteq Required /\ Required \subseteq KeySet
    /\ \A config \in Configs : config # <<>> /\ DOMAIN config[1] = KeySet
    /\ \A h \in Callers : \A patch \in Patches[h] : \A k \in DOMAIN patch : patch[k] \in Nat

VARIABLES
    live,       \* live[p]: the engine's values in process p
    rows,       \* the settings table
    call,       \* call[h]: the set-config that h runs
    told        \* history: what the last successful answer showed, if its call ran alone
                \* and no other has begun since

settingsVars == <<live, rows, call, told>>

NoSettings == [k \in {} |-> 0]
NoCall == [pc |-> "none", p |-> 0, wanted |-> NoSettings, left |-> <<>>, solo |-> FALSE]

SettingsInit ==
    /\ live = [p \in Holders |-> NoSettings] /\ rows = NoSettings
    /\ call = [h \in Callers |-> NoCall] /\ told = NoSettings

InProgress == {h \in Callers : call[h].pc \in {"apply", "persist", "ok"}}

Overlay(base, over) == [k \in DOMAIN base |-> IF k \in DOMAIN over THEN over[k] ELSE base[k]]

\* A key may be 0 only where 0 has a meaning.
Allowed(k, v) == k \in Required => v # 0

-----------------------------------------------------------------------------
(* Start: the configuration's layers (defaults, file, environment, flags), *)
(* over them the rows that are there, can be read and are well formed.     *)

\* Each layer replaces what it names; fillComputedDefaults fills what was left empty.
Merged(config) == FoldLeft(Overlay, config[1], config)

Layered(config) ==
    [k \in KeySet |-> IF k \in Defaulted /\ Merged(config)[k] = 0
                      THEN config[1][k] ELSE Merged(config)[k]]

ASSUME LayersAssumption == \A config \in Configs : Layered(config) \in [KeySet -> Nat]

\* Validate, before anything of the daemon is built.
ValidConfig(config) == \A k \in KeySet : Allowed(k, Layered(config)[k])

\* What the engine stores: a value it has no meaning for leaves the key as it is.
Applied(old, k, v) == IF Allowed(k, v) THEN v ELSE old

\* Defect: the configuration wins over what clients have set.
LoadSettings_ConfigFirst(p, config, readable) ==
    live' = [live EXCEPT ![p] = Layered(config)]

LoadSettings(p, config, readable) ==
    live' = [live EXCEPT ![p] =
        [k \in KeySet |-> IF k \in readable \cap DOMAIN rows /\ Allowed(k, rows[k])
                            THEN rows[k] ELSE Layered(config)[k]]]

-----------------------------------------------------------------------------
(* A set-config in its steps.                                              *)

\* Defect: the fields of a patch are taken as they come.
ValidateSetConfig_Lax(patch) == TRUE
ValidateSetConfig(patch) == \A k \in DOMAIN patch : Allowed(k, patch[k])

\* The patch goes over the live values as they are now; a bad one is answered at once.
BeginSet(h, p, patch) ==
    /\ call[h] = NoCall
    /\ IF ValidateSetConfig(patch)
         THEN /\ call' = [g \in Callers |->
                    IF g = h THEN [pc |-> "apply", p |-> p, wanted |-> Overlay(live[p], patch),
                                   left |-> Keys, solo |-> InProgress = {}]
                             ELSE [call[g] EXCEPT !.solo = FALSE]]
              /\ told' = NoSettings
         ELSE call' = [call EXCEPT ![h].pc = "error"] /\ UNCHANGED told
    /\ UNCHANGED <<live, rows>>

\* The atomics are stored one after the other, which nothing can interrupt for long: one
\* step here.
ApplySettings(h) ==
    /\ call[h].pc = "apply"
    /\ live' = [live EXCEPT ![call[h].p] = [k \in KeySet |-> Applied(@[k], k, call[h].wanted[k])]]
    /\ call' = [call EXCEPT ![h].pc = "persist"]
    /\ UNCHANGED <<rows, told>>

\* An upsert of one row.
SaveSetting(k, v) == rows' = [j \in {k} \cup DOMAIN rows |-> IF j = k THEN v ELSE rows[j]]

\* Defect: only the keys of which no row exists yet are written.
PersistField_OnlyNew(h) ==
    LET k == Head(call[h].left)  rest == Tail(call[h].left) IN
    /\ call[h].pc = "persist"
    /\ IF k \in DOMAIN rows THEN UNCHANGED rows ELSE SaveSetting(k, call[h].wanted[k])
    /\ call' = [call EXCEPT ![h].left = rest, ![h].pc = IF rest = <<>> THEN "ok" ELSE @]
    /\ UNCHANGED <<live, told>>

\* Each key is written on its own.
PersistField(h) ==
    LET k == Head(call[h].left)  rest == Tail(call[h].left) IN
    /\ call[h].pc = "persist"
    /\ SaveSetting(k, call[h].wanted[k])
    /\ call' = [call EXCEPT ![h].left = rest, ![h].pc = IF rest = <<>> THEN "ok" ELSE @]
    /\ UNCHANGED <<live, told>>

\* An upsert that fails, or that a closing server's context refuses, ends the call with the
\* keys before it persisted and all of them live.
PersistFails(h) ==
    /\ call[h].pc = "persist"
    /\ call' = [call EXCEPT ![h].pc = "error"]
    /\ UNCHANGED <<live, rows, told>>

\* The answer to a call that went well shows what is live by now.
Answer(h) ==
    /\ call[h].pc \in {"ok", "error"}
    /\ told' = IF call[h].pc = "ok" /\ call[h].solo THEN live[call[h].p] ELSE told
    /\ call' = [call EXCEPT ![h] = [NoCall EXCEPT !.pc = "done"]]
    /\ UNCHANGED <<live, rows>>

\* The calls of a process that dies, and its live values, are lost.
Forget(p) ==
    /\ live' = [live EXCEPT ![p] = NoSettings]
    /\ call' = [h \in Callers |-> IF call[h].p = p THEN [NoCall EXCEPT !.pc = "done"] ELSE call[h]]
    /\ UNCHANGED <<rows, told>>
=============================================================================
