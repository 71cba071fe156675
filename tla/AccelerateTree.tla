---------------------------- MODULE AccelerateTree ----------------------------
(***************************************************************************)
(* The tree of acceleration projects and the user's selection in it:       *)
(* core/src/model.rs, service.rs, settings.rs and ui/src/state.rs, as      *)
(* app.rs and pages/accelerator.rs drive them.                             *)
(*                                                                         *)
(* A leaf is a project; projects are nested in containers, those in        *)
(* groups.  The state of a container follows from its leaves.  The tree    *)
(* exists twice: the user interface works on app.groups and reports every  *)
(* change to the AccelerateService, which keeps its own copy.  The leaves  *)
(* that are on are saved when the accelerator starts and restored at the   *)
(* next launch; the proxy works with the leaves start() finds enabled.     *)
(***************************************************************************)
CONSTANTS
    Leaf,       \* the projects without children, named by their id
    Container,  \* the projects with children
    Group,
    Under       \* the leaves below each container and group

Node == Container \cup Group

ASSUME TreeAssumption ==
    /\ Container \cap Group = {}
    /\ Under \in [Node -> SUBSET Leaf]
    /\ \A c \in Container : Under[c] # {}
    /\ \A l \in Leaf : \E g \in Group : l \in Under[g]
    /\ \A g, h \in Group : Under[g] \cap Under[h] # {} => g = h

\* "save": writing settings.json fails (every caller ignores it), before or
\* behind the truncation of the file; "kill": the process dies, leaving the
\* truncated file if it was writing.
FailureKind == {"save", "kill"}

\* three_state_enable: Some(true), Some(false), None.
Tri == {"on", "off", "mixed"}

VARIABLES
    up,         \* the program is running
    leafOn,     \* app.groups: the leaves that are on
    node,       \* app.groups: three_state_enable of containers and groups
    svcOn,      \* AccelerateService.inner: the same two
    svcNode,
    listed,     \* settings.proxy.support_proxy_services_status in memory
    disk,       \* the same in settings.json
    broken,     \* settings.json was cut off by a kill or a failing write
    running,    \* Inner.running
    proxied,    \* the leaves the last start() made its tables from
    chosen,     \* history: the selection at the last start
    given,      \* history: the states the manifest gave the groups
    clicked,    \* history: the user has clicked since the launch
    failures    \* the failures of this behaviour, chosen once

tree == <<leafOn, node, svcOn, svcNode>>
settingsFile == <<disk, broken>>
launched == <<given, clicked>>
treeVars == <<up, tree, listed, settingsFile, running, proxied, chosen, launched, failures>>

TreeTypeOK ==
    /\ up \in BOOLEAN
    /\ leafOn \in SUBSET Leaf /\ svcOn \in SUBSET Leaf
    /\ node \in [Node -> Tri] /\ svcNode \in [Node -> Tri]
    /\ listed \in SUBSET Leaf
    /\ disk \in SUBSET Leaf
    /\ broken \in BOOLEAN /\ running \in BOOLEAN
    /\ proxied \in SUBSET Leaf
    /\ chosen \in SUBSET Leaf
    /\ given \in [Group -> Tri] /\ clicked \in BOOLEAN
    /\ failures \in SUBSET FailureKind

GroupOf(l) == CHOOSE g \in Group : l \in Under[g]

(***************************************************************************)
(* What follows from the leaves.                                           *)
(***************************************************************************)
\* derive, the end of restore_enable and the group part of recompute.
Derived(n, on) ==
    IF Under[n] \cap on = {} THEN "off"
    ELSE IF Under[n] \subseteq on THEN "on" ELSE "mixed"

\* recompute
Recomputed(on) == [n \in Node |-> Derived(n, on)]

\* restore_enable for every project of every group; the groups keep the state
\* the manifest gave them.
Restored(groups, on) ==
    [n \in Node |-> IF n \in Group THEN groups[n] ELSE Derived(n, on)]

(***************************************************************************)
(* Launch.                                                                 *)
(***************************************************************************)
\* Settings::load falls back to the defaults when the file does not parse.
Loaded == IF broken THEN {} ELSE disk

\* App::new: load the settings and the manifest (the list on the disk, whose
\* groups may say anything, or else the built-in one), restore the selection in
\* the service's tree and take a copy of it.
Launch(manifest) ==
    /\ ~up
    /\ up' = TRUE
    /\ listed' = Loaded
    /\ svcOn' = Loaded
    /\ svcNode' = Restored(manifest, Loaded)
    /\ leafOn' = svcOn'
    /\ node' = svcNode'
    /\ proxied' = {}
    /\ given' = manifest /\ clicked' = FALSE
    /\ UNCHANGED <<settingsFile, running, chosen, failures>>

(***************************************************************************)
(* The user works in the tree.                                             *)
(***************************************************************************)
\* Mutant: the service is not told.
SelectUnreported(on) ==
    /\ leafOn' = on
    /\ node' = Recomputed(on)
    /\ clicked' = TRUE
    /\ UNCHANGED <<up, svcOn, svcNode, listed, settingsFile, running, proxied, chosen, given, failures>>

\* Mutant: the groups are recomputed before the leaves change.
SelectGroupsFirst(on) ==
    /\ leafOn' = on
    /\ node' = [n \in Node |-> Derived(n, IF n \in Group THEN leafOn ELSE on)]
    /\ svcOn' = on
    /\ svcNode' = Restored(svcNode, on)
    /\ clicked' = TRUE
    /\ UNCHANGED <<up, listed, settingsFile, running, proxied, chosen, given, failures>>

\* set_leaf or set_group, then commit: apply_enabled with the enabled ids.
Select(on) ==
    /\ leafOn' = on
    /\ node' = Recomputed(on)
    /\ svcOn' = on
    /\ svcNode' = Restored(svcNode, on)
    /\ clicked' = TRUE
    /\ UNCHANGED <<up, listed, settingsFile, running, proxied, chosen, given, failures>>

\* on_platform_check, on_service_check: a click that agrees with the model is
\* not the user's.
CheckLeaf(l, on) ==
    /\ up
    /\ (l \in leafOn) # on
    /\ Select(IF on THEN leafOn \cup {l} ELSE leafOn \ {l})

\* group_enabled
GroupEnabled(g) == Under[g] # {} /\ Under[g] \subseteq leafOn

CheckGroup(g, on) ==
    /\ up
    /\ GroupEnabled(g) # on
    /\ Select(IF on THEN leafOn \cup Under[g] ELSE leafOn \ Under[g])

(***************************************************************************)
(* Starting the accelerator.                                               *)
(***************************************************************************)
\* start(): a leaf counts if it is on and its group is.
Enabled == {l \in leafOn : node[GroupOf(l)] = "on"}

\* Mutant: the list is saved before it is brought up to date.
SaveFirst ==
    /\ disk' = listed
    /\ broken' = FALSE

\* Settings::save, whose callers ignore the result.
Save ==
    \/ disk' = listed' /\ broken' = FALSE
    \/ "save" \in failures /\ broken' \in {broken, TRUE} /\ UNCHANGED disk

\* start_accel and the head of start(), which may still fail.
StartAccel ==
    /\ up
    /\ ~running
    /\ listed' = leafOn
    /\ Save
    /\ proxied' = Enabled
    /\ running' \in BOOLEAN
    /\ chosen' = leafOn
    /\ UNCHANGED <<up, tree, launched, failures>>

StopAccel ==
    /\ up
    /\ running
    /\ running' = FALSE
    /\ UNCHANGED <<up, tree, listed, settingsFile, proxied, chosen, launched, failures>>

\* switch_proxy_mode, apply_proxy_dialog and the general settings: the list
\* stays as the last start left it.
SaveSettings ==
    /\ up
    /\ UNCHANGED listed
    /\ Save
    /\ UNCHANGED <<up, tree, running, proxied, chosen, launched, failures>>

\* The process ends, or is killed while it writes settings.json.
Quit ==
    /\ up
    /\ up' = FALSE
    /\ running' = FALSE
    /\ \/ UNCHANGED settingsFile
       \/ "kill" \in failures /\ broken' = TRUE /\ UNCHANGED disk
    /\ proxied' = {}
    /\ UNCHANGED <<tree, listed, chosen, launched, failures>>

TreeInit ==
    /\ up = FALSE
    /\ leafOn = {} /\ svcOn = {}
    /\ node = Recomputed({}) /\ svcNode = Recomputed({})
    /\ listed = {} /\ disk = {} /\ broken = FALSE
    /\ running = FALSE /\ proxied = {} /\ chosen = {}
    /\ given = [g \in Group |-> "off"] /\ clicked = FALSE
    /\ failures \in SUBSET FailureKind

TreeNext ==
    \/ \E manifest \in [Group -> Tri] : Launch(manifest)
    \/ \E l \in Leaf, on \in BOOLEAN : CheckLeaf(l, on)
    \/ \E g \in Group, on \in BOOLEAN : CheckGroup(g, on)
    \/ StartAccel \/ StopAccel \/ SaveSettings \/ Quit

TreeSpec == TreeInit /\ [][TreeNext]_treeVars

(***************************************************************************)
(* Properties.                                                             *)
(***************************************************************************)
\* The two copies of the tree show the same selection, containers included,
\* and every container's state is the one that follows from its leaves.
\* (commit, apply_enabled, restore_enable, recompute)
CopiesAgree ==
    /\ svcOn = leafOn
    /\ \A c \in Container :
        node[c] = Derived(c, leafOn) /\ svcNode[c] = Derived(c, leafOn)

\* When every write succeeds, the program comes back with the selection of the
\* last start, whatever was clicked or saved since.
\* (start_accel, switch_proxy_mode, Settings::save, App::new)
SelectionSurvives == failures = {} => Loaded = chosen

\* What a start takes of a group: see ClicksDecide.
Takes(g) ==
    proxied' \cap Under[g] =
        IF clicked THEN (IF GroupEnabled(g) THEN Under[g] ELSE {})
        ELSE (IF given[g] = "on" THEN Under[g] \cap leafOn ELSE {})

\* Whatever the manifest says of a group, one click anywhere since the launch
\* settles it: a start then proxies exactly the groups whose box is ticked, whole,
\* and no leaf of a group that is partly on.  Without a click the manifest still
\* decides: of a group it enables the leaves of the last selection are proxied,
\* partly too, of any other group none, be its box ticked or not.
\* (group_enabled, recompute, restore_enable, apply_enabled, start)
ClicksDecide == [][StartAccel => \A g \in Group : Takes(g)]_treeVars
=============================================================================
