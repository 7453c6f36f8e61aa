-------------------------- MODULE TracingController -------------------------
(***************************************************************************)
(* The registry of category groups of the tracing controller (src/src/     *)
(* libplatform/tracing/tracing-controller.cc): an array of names, an array *)
(* of flags and the number of slots in use.  Threads look groups up and    *)
(* add new ones without a lock while one thread starts and stops tracing.  *)
(*                                                                         *)
(* A step is a load or a store of the shared state.  A search is one step: *)
(* it loads g_category_index and reads slots below it.  The buffer that    *)
(* the controller owns is in TraceBuffer; the two share the threads that   *)
(* trace and no state.  Nothing stands for NULL, no group and no slot.     *)
(***************************************************************************)
EXTENDS TraceBuffer

CONSTANTS
  Groups,               \* the groups that the threads in Tracers ask for
  Included,             \* the groups that the trace configuration includes
  MAX_CATEGORY_GROUPS,
  MaxStarts             \* bound: calls of StartTracing

VARIABLES
  g_category_groups, g_category_group_enabled, g_category_index,
  recording,            \* mode_ = RECORDING_MODE
  updating,             \* <<i, limit>> of UpdateCategoryGroupEnabledFlags
  starts,
  call,                 \* [Tracers -> a call of GetCategoryGroupEnabled]
  raced                 \* two threads have added a group at the same time

controllerVars == <<g_category_groups, g_category_group_enabled,
                    g_category_index, recording, updating, starts, call, raced>>

Slots == 0 .. MAX_CATEGORY_GROUPS - 1
Builtin == <<"toplevel", "already_shutdown", "exhausted", "__metadata">>

ASSUME ControllerAssumption ==
  /\ MAX_CATEGORY_GROUPS \in Nat /\ MAX_CATEGORY_GROUPS >= Len(Builtin)
  /\ Nothing \notin Groups /\ \A i \in 1 .. Len(Builtin) : Builtin[i] # Nothing

g_category_categories_exhausted == 2

Idle == [at |-> "idle", group |-> Nothing, slot |-> Nothing, flag |-> FALSE]

ControllerInit ==
  /\ g_category_groups =
       [i \in Slots |-> IF i < Len(Builtin) THEN Builtin[i + 1] ELSE Nothing]
  /\ g_category_group_enabled = [i \in Slots |-> FALSE]
  /\ g_category_index = Len(Builtin)
  /\ recording = FALSE /\ updating = Nothing /\ starts = 0
  /\ call = [t \in Tracers |-> Idle] /\ raced = FALSE

Matching(group) == {i \in 0 .. g_category_index - 1 : g_category_groups[i] = group}
EnabledFlag(i) ==
  recording /\ (g_category_groups[i] \in Included \/ g_category_groups[i] = "__metadata")

registry == <<g_category_groups, g_category_group_enabled, g_category_index>>
control == <<recording, updating, starts>>

(* The call is over: it has returned the flag of a slot.                   *)
Returns(t, slot) ==
  call' = [call EXCEPT ![t].at = "returned", ![t].slot = slot]

(* The first search, which a new call starts with.  (The controller has a  *)
(* buffer: the embedder gives it one in Initialize, before any call.)      *)
Search(t, group) ==
  /\ call[t].at \in {"idle", "returned"}
  /\ call' = [call EXCEPT ![t] =
       IF Matching(group) # {}
       THEN [Idle EXCEPT !.at = "returned", !.group = group, !.slot = Min(Matching(group))]
       ELSE [Idle EXCEPT !.at = "again", !.group = group]]
  /\ UNCHANGED <<registry, control, raced>>

Adds(c) == c.at \in {"name", "flag", "store", "index"}

(* The second one, with the index that the new group will have.            *)
SearchAgain(t) ==
  LET found == Matching(call[t].group)
      full == g_category_index >= MAX_CATEGORY_GROUPS
  IN  /\ call[t].at = "again"
      /\ CASE found # {} -> Returns(t, Min(found))
           [] found = {} /\ full -> Returns(t, g_category_categories_exhausted)
           [] OTHER -> call' = [call EXCEPT ![t].at = "name", ![t].slot = g_category_index]
      /\ raced' = (raced \/ \E u \in Tracers \ {t} : Adds(call[u]) /\ Adds(call'[t]))
      /\ UNCHANGED <<registry, control>>

(* Mutant: the index is stored before the name.                            *)
MutStoreName(t) ==
  /\ call[t].at = "name"
  /\ g_category_index' = call[t].slot + 1
  /\ call' = [call EXCEPT ![t].at = "flag"]
  /\ UNCHANGED <<g_category_groups, g_category_group_enabled, control, raced>>

StoreName(t) ==
  /\ call[t].at = "name"
  /\ g_category_groups' = [g_category_groups EXCEPT ![call[t].slot] = call[t].group]
  /\ call' = [call EXCEPT ![t].at = "flag"]
  /\ UNCHANGED <<g_category_group_enabled, g_category_index, control, raced>>

(* UpdateCategoryGroupEnabledFlag: the mode is read, then the flag stored. *)
ReadMode(t) ==
  /\ call[t].at = "flag"
  /\ call' = [call EXCEPT ![t].at = "store", ![t].flag = EnabledFlag(call[t].slot)]
  /\ UNCHANGED <<registry, control, raced>>

StoreFlag(t) ==
  /\ call[t].at = "store"
  /\ g_category_group_enabled' =
       [g_category_group_enabled EXCEPT ![call[t].slot] = call[t].flag]
  /\ call' = [call EXCEPT ![t].at = "index"]
  /\ UNCHANGED <<g_category_groups, g_category_index, control, raced>>

StoreIndex(t) ==
  /\ call[t].at = "index"
  /\ g_category_index' = call[t].slot + 1
  /\ Returns(t, call[t].slot)
  /\ UNCHANGED <<g_category_groups, g_category_group_enabled, control, raced>>

(* StartTracing and StopTracing set the mode, load the index and go        *)
(* through the slots below it.                                             *)
StartTracing ==
  /\ ~recording /\ updating = Nothing /\ starts < MaxStarts
  /\ recording' = TRUE /\ starts' = starts + 1
  /\ updating' = <<0, Nothing>>
  /\ UNCHANGED <<registry, call, raced>>

StopTracing ==
  /\ recording /\ updating = Nothing
  /\ recording' = FALSE
  /\ updating' = <<0, Nothing>>
  /\ UNCHANGED <<registry, starts, call, raced>>

LoadIndex ==
  /\ updating # Nothing /\ updating[2] = Nothing
  /\ updating' = <<0, g_category_index>>
  /\ UNCHANGED <<registry, recording, starts, call, raced>>

UpdateCategoryGroupEnabledFlag ==
  /\ updating # Nothing /\ updating[2] # Nothing
  /\ LET i == updating[1]
     IN  /\ g_category_group_enabled' =
              [g_category_group_enabled EXCEPT ![i] = EnabledFlag(i)]
         /\ updating' = IF i + 1 < updating[2] THEN <<i + 1, updating[2]>> ELSE Nothing
  /\ UNCHANGED <<g_category_groups, g_category_index, recording, starts, call, raced>>

ControllerNext ==
  \/ \E t \in Tracers :
       \/ \E group \in Groups : Search(t, group)
       \/ SearchAgain(t) \/ StoreName(t) \/ ReadMode(t) \/ StoreFlag(t) \/ StoreIndex(t)
  \/ StartTracing \/ StopTracing \/ LoadIndex \/ UpdateCategoryGroupEnabledFlag

ControllerSpec == ControllerInit /\ [][ControllerNext]_controllerVars
-----------------------------------------------------------------------------
(* A thread that goes through the slots below an index it has loaded finds *)
(* a name in each of them, although additions that race may store an index *)
(* below one stored before: strcmp never meets NULL.  As long as no two    *)
(* additions have raced, the flag that a call has returned stays that of   *)
(* its group, or is the one that stands for an exhausted table.            *)
RegistryIsSound ==
  LET limits == {g_category_index}
                \cup IF updating = Nothing \/ updating[2] = Nothing THEN {} ELSE {updating[2]}
  IN  /\ \A limit \in limits : \A i \in 0 .. limit - 1 : g_category_groups[i] # Nothing
      /\ ~raced => \A t \in Tracers : call[t].at = "returned" =>
           \/ g_category_groups[call[t].slot] = call[t].group
           \/ /\ call[t].slot = g_category_categories_exhausted
              /\ g_category_index = MAX_CATEGORY_GROUPS
=============================================================================
