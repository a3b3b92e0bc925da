------------------------------ MODULE SecretViewer ------------------------------
(***************************************************************************)
(* The terminal dashboard (src/tui/app.rs, commands/tui.rs): one event     *)
(* loop handles keys, the mouse and the results of resolutions, which run  *)
(* as tasks of their own and end in any order, late ones included.         *)
(*                                                                         *)
(* All texts are of one character: a text, or the name of a secret, is its *)
(* length, and a name contains the search text if it is not shorter.       *)
(***************************************************************************)
EXTENDS Naturals, Sequences, SequencesExt, FiniteSets

CONSTANTS
  Profiles,         \* available_profiles, in order
  StartProfiles,    \* the profiles, or stacks of them, to start in
  ProfileSecrets,   \* [profile -> names of its secrets, in order]
  ProfileProviders, \* [profile -> number of its providers]
  BrokenProfiles,   \* those that the config does not load
  ClipboardWorks,   \* whether there is a clipboard
  MaxLoads,         \* bound: resolutions started
  MaxText,          \* bound: characters of a text that is typed
  MaxFilter,        \* bound: characters of the search
  NoValue           \* a secret resolved to nothing

ASSUME ViewAssumption ==
  /\ Profiles \in Seq(DOMAIN ProfileSecrets \cup BrokenProfiles) /\ Profiles # <<>>
  /\ StartProfiles \in (SUBSET DOMAIN ProfileSecrets) \ {{}}
  /\ \A p \in DOMAIN ProfileSecrets : ProfileSecrets[p] \in Seq(Nat) /\ ProfileProviders[p] \in Nat
  /\ MaxLoads \in Nat /\ MaxText \in Nat /\ MaxFilter \in Nat

VARIABLES
  app,    \* struct App
  tasks,  \* resolutions under way: [id, profile, keys]
  typed   \* history: values typed since the last refresh while nothing was loading

viewVars == <<app, tasks, typed>>

NoPopup == [kind |-> "none", key |-> 0, value |-> 0, field |-> "key", cursor |-> 0]
Popup(kind, key) == [NoPopup EXCEPT !.kind = kind, !.key = key]

NewApp(profile) ==
  [running |-> TRUE, focus |-> "secrets", popup |-> NoPopup, profile |-> profile,
   providers |-> ProfileProviders[profile], providerIndex |-> 0,
   secrets |-> ProfileSecrets[profile], secretIndex |-> 0, values |-> <<>>, loading |-> FALSE,
   id |-> 0, error |-> FALSE, filter |-> 0, searching |-> FALSE, picker |-> 0]

(* spawn_resolve_secrets: what was loaded goes, and results of earlier ids are stale. *)
SpawnResolve(a) == [a EXCEPT !.id = @ + 1, !.values = <<>>, !.loading = TRUE]

Task(a) == [id |-> a.id, profile |-> a.profile, keys |-> ToSet(a.secrets)]

ViewInit ==
  /\ \E p \in StartProfiles : app = SpawnResolve(NewApp(p))
  /\ tasks = {Task(app)} /\ typed = <<>>

ViewIdle ==
  /\ app = [NewApp(CHOOSE p \in StartProfiles : TRUE) EXCEPT !.running = FALSE]
  /\ tasks = {} /\ typed = <<>>

(* The rows on the screen: where the names that contain the search text stand in the list. *)
FilteredSecrets(a) == {i \in DOMAIN a.secrets : a.secrets[i] >= a.filter}

Rows(a) == Cardinality(FilteredSecrets(a))

(* The selected secret, with secretIndex rows above it, or 0. *)
SelectedSecret(a) ==
  LET shown == FilteredSecrets(a)
      at == {i \in shown : Cardinality({j \in shown : j < i}) = a.secretIndex}
  IN  IF at = {} THEN 0 ELSE a.secrets[CHOOSE i \in at : TRUE]

ValueOf(a, key) == IF key \in DOMAIN a.values THEN a.values[key] ELSE NoValue

With(f, key, v) == [k \in DOMAIN f \cup {key} |-> IF k = key THEN v ELSE f[k]]

(* What the user typed in a profile; text is its length. *)
Typed(a, text) == [of |-> a.profile, typed |-> TRUE, text |-> text]

Closed(a) == [a EXCEPT !.popup = NoPopup]

--------------------------------------------------------------------------------
(* Results of resolutions. *)

(* Mutant: the result of an earlier resolution is taken too. *)
AnyResult(a, t) == TRUE

IsCurrent(a, t) == t.id = a.id

FailedLoad(a) == [a EXCEPT !.error = TRUE, !.loading = FALSE]

(* handle_message: secrets resolve to a value or to none. *)
Resolved(t) ==
  /\ tasks' = tasks \ {t}
  /\ \E some \in SUBSET t.keys :
       app' = IF IsCurrent(app, t)
              THEN [app EXCEPT !.loading = FALSE,
                               !.values = [k \in t.keys |-> IF k \notin some THEN NoValue
                                             ELSE [of |-> t.profile, typed |-> FALSE, text |-> 1]]]
              ELSE app
  /\ UNCHANGED typed

ResolveFailed(t) ==
  /\ tasks' = tasks \ {t}
  /\ app' = IF IsCurrent(app, t) THEN FailedLoad(app) ELSE app
  /\ UNCHANGED typed

--------------------------------------------------------------------------------
(* Keys. *)

(* The clipboard gets a value, or there is an error. *)
Copy(a, key) == [a EXCEPT !.error = @ \/ ValueOf(a, key) = NoValue \/ ~ClipboardWorks]

CopySelected(a) ==
  IF a.focus = "secrets" /\ SelectedSecret(a) # 0 THEN Copy(a, SelectedSecret(a)) ELSE a

SwitchProfile(a, p) ==
  IF p = a.profile THEN a
  ELSE IF p \in BrokenProfiles THEN [a EXCEPT !.error = TRUE]
  ELSE SpawnResolve([a EXCEPT !.profile = p, !.providers = ProfileProviders[p], !.providerIndex = 0,
                              !.secrets = ProfileSecrets[p], !.secretIndex = 0, !.filter = 0])

PickerKey(a, key) ==
  LET n == Len(Profiles)
  IN  CASE key = "Esc" -> Closed(a)
        [] key = "Enter" -> Closed(SwitchProfile(a, Profiles[a.picker + 1]))
        [] key = "Down" -> [a EXCEPT !.picker = (@ + 1) % n]
        [] key = "Up" -> [a EXCEPT !.picker = (@ + n - 1) % n]
        [] OTHER -> a

(* Deleting is not implemented. *)
ConfirmDeleteKey(a, key) ==
  CASE key \in {"Esc", "n"} -> Closed(a)
    [] key = "y" -> [Closed(a) EXCEPT !.error = TRUE]
    [] OTHER -> a

(* The text with the cursor in it: <<length, cursor>> after a key. *)
TextKey(text, cursor, key) ==
  CASE key = "Backspace" -> IF cursor > 0 THEN <<text - 1, cursor - 1>> ELSE <<text, cursor>>
    [] key = "Delete" -> <<IF cursor < text THEN text - 1 ELSE text, cursor>>
    [] key = "Left" -> <<text, IF cursor > 0 THEN cursor - 1 ELSE 0>>
    [] key = "Right" -> <<text, IF cursor < text THEN cursor + 1 ELSE cursor>>
    [] key = "char" -> <<text + 1, cursor + 1>>
    [] OTHER -> <<text, cursor>>

OpenEdit(a) ==
  LET key == SelectedSecret(a)
      text == IF ValueOf(a, key) = NoValue THEN 0 ELSE ValueOf(a, key).text
  IN  IF key = 0 THEN a
      ELSE [a EXCEPT !.popup = [Popup("edit", key) EXCEPT !.value = text, !.cursor = text]]

(* Home and End belong to the edit dialog alone. *)
EditKey(a, key) ==
  LET p == a.popup
      r == TextKey(p.value, p.cursor, key)
  IN  CASE key = "Esc" -> Closed(a)
        [] key = "Enter" -> [Closed(a) EXCEPT !.values = With(@, p.key, Typed(a, p.value))]
        [] key = "Home" -> [a EXCEPT !.popup.cursor = 0]
        [] key = "End" -> [a EXCEPT !.popup.cursor = p.value]
        [] OTHER -> [a EXCEPT !.popup.value = r[1], !.popup.cursor = r[2]]

(* A secret is set in the list and the values, never in the config. *)
SetSecret(a) ==
  LET p == a.popup
  IN  [Closed(a) EXCEPT !.secrets = IF p.key \in ToSet(@) THEN @ ELSE Append(@, p.key),
                        !.values = With(@, p.key, Typed(a, p.value))]

(* Every key but Esc takes an error away first. *)
SetKey(before, key) ==
  LET p == before.popup
      a == IF key = "Esc" THEN before ELSE [before EXCEPT !.error = FALSE]
      r == IF p.field = "key" THEN TextKey(p.key, p.cursor, key) ELSE TextKey(p.value, p.cursor, key)
  IN  CASE key = "Esc" -> Closed(a)
        [] key = "Tab" /\ p.field = "key" -> [a EXCEPT !.popup.field = "value", !.popup.cursor = p.value]
        [] key = "Tab" /\ p.field = "value" -> [a EXCEPT !.popup.field = "key", !.popup.cursor = p.key]
        [] key = "Enter" -> IF p.key = 0 THEN [a EXCEPT !.error = TRUE] ELSE SetSecret(a)
        [] OTHER -> IF p.field = "key" THEN [a EXCEPT !.popup.key = r[1], !.popup.cursor = r[2]]
                    ELSE [a EXCEPT !.popup.value = r[1], !.popup.cursor = r[2]]

SearchKey(a, key) ==
  CASE key = "Esc" -> [a EXCEPT !.searching = FALSE, !.filter = 0, !.secretIndex = 0]
    [] key = "Enter" -> [a EXCEPT !.searching = FALSE]
    [] key = "Backspace" -> [a EXCEPT !.filter = IF @ > 0 THEN @ - 1 ELSE 0, !.secretIndex = 0]
    [] key = "char" -> [a EXCEPT !.filter = @ + 1, !.secretIndex = 0]
    [] OTHER -> a

(* One row down or up, within the list. *)
Moved(index, length, down) ==
  IF length = 0 THEN index
  ELSE IF down THEN (IF index + 1 < length THEN index + 1 ELSE length - 1)
  ELSE IF index > 0 THEN index - 1 ELSE 0

MoveSelection(a, down) ==
  IF a.focus = "providers" THEN [a EXCEPT !.providerIndex = Moved(@, a.providers, down)]
  ELSE [a EXCEPT !.secretIndex = Moved(@, Rows(a), down)]

OpenSelected(a, kind) ==
  IF a.focus = "secrets" /\ SelectedSecret(a) # 0
  THEN [a EXCEPT !.popup = Popup(kind, SelectedSecret(a))] ELSE a

OpenPicker(a) ==
  LET at == {i \in DOMAIN Profiles : Profiles[i] = a.profile}
  IN  [a EXCEPT !.picker = IF at = {} THEN 0 ELSE (CHOOSE i \in at : TRUE) - 1,
                !.popup = Popup("picker", 0)]

(* The first or the last row. *)
Jump(a, last) ==
  LET rows == IF a.focus = "providers" THEN a.providers ELSE Rows(a)
      row(old) == IF ~last THEN 0 ELSE IF rows = 0 THEN old ELSE rows - 1
  IN  IF a.focus = "providers" THEN [a EXCEPT !.providerIndex = row(@)]
      ELSE [a EXCEPT !.secretIndex = row(@)]

MainKey(a, key) ==
  CASE key = "Esc" -> [a EXCEPT !.running = FALSE]
    [] key = "Tab" -> [a EXCEPT !.focus = IF @ = "secrets" THEN "providers" ELSE "secrets"]
    [] key = "/" -> [a EXCEPT !.searching = TRUE]
    [] key \in {"Down", "Up"} -> MoveSelection(a, key = "Down")
    [] key \in {"g", "G"} -> Jump(a, key = "G")
    [] key = "?" -> [a EXCEPT !.popup = Popup("help", 0)]
    [] key = "P" -> OpenPicker(a)
    [] key = "r" -> SpawnResolve(a)
    [] key = "c" -> CopySelected(a)
    [] key = "Enter" -> OpenSelected(a, "detail")
    [] key = "d" -> OpenSelected(a, "confirm")
    [] key = "e" /\ a.focus = "secrets" -> OpenEdit(a)
    [] key = "s" -> [a EXCEPT !.popup = Popup("set", 0)]
    [] OTHER -> a

Keys == {"Esc", "Enter", "Tab", "Down", "Up", "Left", "Right", "Home", "End", "Backspace", "Delete",
         "char", "/", "g", "G", "?", "P", "r", "c", "d", "e", "s", "y", "n"}

(* Letters are keys of the dialogs and of the search only as text. *)
Meant(a, key) == IF (a.searching \/ a.popup.kind \in {"edit", "set"})
                    /\ key \in {"/", "g", "G", "?", "P", "r", "c", "d", "e", "s", "y", "n"}
                 THEN "char" ELSE key

(* handle_key: the error, the popup or the search takes the key. *)
HandleKey(a, pressed) ==
  LET key == Meant(a, pressed)
      kind == a.popup.kind
  IN  CASE a.error /\ kind = "none" /\ ~a.searching -> [a EXCEPT !.error = FALSE]
        [] kind = "help" -> Closed(a)
        [] kind = "picker" -> PickerKey(a, key)
        [] kind = "detail" -> Closed(IF key = "c" THEN Copy(a, a.popup.key) ELSE a)
        [] kind = "confirm" -> ConfirmDeleteKey(a, key)
        [] kind = "edit" -> EditKey(a, key)
        [] kind = "set" -> SetKey(a, key)
        [] kind = "none" /\ a.searching -> SearchKey(a, key)
        [] OTHER -> MainKey(a, key)

(* handle_mouse: a click selects a row that is there, or closes a popup. *)
Click(a, area, row) ==
  CASE a.popup.kind \in {"help", "detail"} -> Closed(a)
    [] a.popup.kind \notin {"help", "detail", "none"} -> a
    [] area = "providers" /\ a.popup.kind = "none" ->
         [a EXCEPT !.focus = "providers", !.providerIndex = IF row < a.providers THEN row ELSE @]
    [] area = "secrets" /\ a.popup.kind = "none" ->
         [a EXCEPT !.focus = "secrets", !.secretIndex = IF row < Rows(a) THEN row ELSE @]

(* An event that makes a of the App; a refresh starts a task.  An event that changes *)
(* nothing is a stuttering step.                                                     *)
Becomes(a) ==
  /\ a # app
  /\ a.id <= MaxLoads /\ a.filter <= MaxFilter
  /\ a.popup.value <= MaxText /\ (a.popup.kind = "set" => a.popup.key <= MaxText)
  /\ app' = a
  /\ tasks' = IF a.id = app.id THEN tasks ELSE tasks \cup {Task(a)}
  /\ LET changed == {k \in DOMAIN a.values : k \notin DOMAIN app.values \/ a.values[k] # app.values[k]}
     IN  typed' = IF a.id # app.id \/ a.profile # app.profile THEN <<>>
                  ELSE IF a.loading THEN typed
                  ELSE [k \in DOMAIN typed \cup changed |-> a.values[k]]

ViewNext ==
  /\ app.running
  /\ \/ \E key \in Keys : Becomes(HandleKey(app, key))
     \/ \E area \in {"providers", "secrets"}, row \in 0..2 : Becomes(Click(app, area, row))
     \/ app.popup.kind = "none" /\ \E down \in BOOLEAN : Becomes(MoveSelection(app, down))
     \/ \E t \in tasks : Resolved(t) \/ ResolveFailed(t)

--------------------------------------------------------------------------------

(* The values on the screen are of the profile on the screen: neither a result that *)
(* comes late, after a switch of the profile or a refresh (resolution_id), nor what *)
(* was typed before it is shown under another one's names.                          *)
ShownCurrent == \A k \in DOMAIN app.values : app.values[k] # NoValue => app.values[k].of = app.profile

(* Whatever keys, clicks and results came in, indexes point into what they index and  *)
(* a popup is about a secret that is there: the action on "the selected secret" is    *)
(* never on none while the list has some, nor on one of another profile.              *)
IndexesValid ==
  /\ app.secretIndex = 0 \/ app.secretIndex < Rows(app)
  /\ app.providerIndex = 0 \/ app.providerIndex < app.providers
  /\ app.picker < Len(Profiles)
  /\ app.popup.kind \in {"detail", "confirm", "edit"} => app.popup.key \in ToSet(app.secrets)
  /\ app.popup.cursor <= IF app.popup.kind = "set" /\ app.popup.field = "key" THEN app.popup.key
                         ELSE app.popup.value

(* What the user has typed while nothing was loading stays until he refreshes or      *)
(* switches the profile: no resolution that was under way takes it back.              *)
TypedKept == \A k \in DOMAIN typed : k \in DOMAIN app.values /\ app.values[k] = typed[k]

(* The dashboard does not load for ever, also when resolutions overtake each other    *)
(* and fail: the one it waits for is under way.                                       *)
LoadingPending == app.loading => \E t \in tasks : IsCurrent(app, t)

\* The dashboard shows values of the profile it shows, keeps what was typed, acts on a
\* secret that is there, and waits only for a resolution that is under way.
ViewSound == ShownCurrent /\ TypedKept /\ IndexesValid /\ LoadingPending
================================================================================
