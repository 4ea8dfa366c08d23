----------------------------- MODULE SettingsSync -----------------------------
(***************************************************************************)
(* One settings object in three places: the main process (settings.js), a  *)
(* copy in every page (player/store.js, shared by the player and the       *)
(* settings page), and settings.json.                                      *)
(*                                                                         *)
(* A page sends its whole copy to save it; the main process replaces its   *)
(* own, broadcasts it to every page, the sender included, and writes the   *)
(* file.  A page whose controls are shown has watchers that save whenever  *)
(* a setting they watch changes, by whatever hand: a broadcast that        *)
(* changes one is therefore saved once more.  Vue runs the watchers before *)
(* the next message is handled, so a change and its saves are one step.    *)
(*                                                                         *)
(* One setting stands for each way to save: syncType for the six that      *)
(* play-control.vue watches, screenshotWithAI for the one of               *)
(* card-screenshot.vue, hotDetection for those that a method changes and   *)
(* saves, and screenshotFormat, which is bound to a control but not saved. *)
(***************************************************************************)
EXTENDS Naturals, Sequences, FiniteSets

CONSTANTS SettingsPages,  \* pages of renderer/settings
          PlayerPages,    \* pages of renderer/player
          MaxEdits,       \* bound: edits by the user
          MaxThemes,      \* bound: theme changes of the system
          MaxRestarts,    \* bound: quits and starts of the application
          MaxQueue        \* bound: messages on the way to or from a page

ASSUME PagesAssumption == SettingsPages \cap PlayerPages = {}
ASSUME BoundsAssumption ==
  MaxEdits \in Nat /\ MaxThemes \in Nat /\ MaxRestarts \in Nat /\ MaxQueue \in Nat \ {0}

Pages == SettingsPages \cup PlayerPages
Keys == {"syncType", "screenshotWithAI", "hotDetection", "screenshotFormat"}
Saved == Keys \ {"screenshotFormat"}
Copies == [Keys -> {0, 1}]
Defaults == [k \in Keys |-> 0]
Torn == <<>>  \* a file cut short: no setting can be read from it

(* Whose controls show a setting, and whose watchers save it.              *)
Editable(p) == IF p \in SettingsPages THEN {"syncType"} ELSE Keys \ {"syncType"}
Watched(p) == IF p \in SettingsPages THEN {"syncType"} ELSE {"screenshotWithAI"}

VARIABLES
  object,         \* Settings.object
  pendingSaving,  \* pendingSaving
  writes,         \* contents of the writeFile calls in progress
  file,           \* settings.json
  open,           \* pages whose store exists
  shown,          \* pages whose watching component is mounted
  view,           \* the settings of a page's store
  toMain, toPage, \* messages on the way
  edits, themes, restarts, \* counters of what the outside has done
  wanted,         \* what the user last asked for
  raced,          \* an edit or a theme change came while messages were on the way
  missed          \* what the file lacks: a change during a write, or a failed write

outside == <<edits, themes, restarts>>
disk == <<pendingSaving, writes, file, missed>>
vars == <<object, disk, open, shown, view, toMain, toPage, outside, wanted, raced>>

Quiet == \A p \in Pages : toMain[p] = <<>> /\ toPage[p] = <<>>

TypeOK ==
  /\ object \in Copies /\ wanted \in Copies
  /\ pendingSaving \in 0..2
  /\ writes \in Seq(Copies)
  /\ file \in Copies \cup {Torn}
  /\ open \subseteq Pages /\ shown \subseteq open
  /\ view \in [Pages -> Copies]
  /\ {toMain, toPage} \subseteq [Pages -> Seq(Copies)]
  /\ edits \in 0..MaxEdits /\ themes \in 0..MaxThemes /\ restarts \in 0..MaxRestarts
  /\ raced \in BOOLEAN /\ missed \in BOOLEAN

Init ==
  /\ object = Defaults /\ file = Defaults /\ wanted = Defaults
  /\ pendingSaving = 0 /\ writes = <<>>
  /\ open = {} /\ shown = {}
  /\ view = [p \in Pages |-> Defaults]
  /\ toMain = [p \in Pages |-> <<>>] /\ toPage = [p \in Pages |-> <<>>]
  /\ edits = 0 /\ themes = 0 /\ restarts = 0
  /\ raced = FALSE /\ missed = FALSE

-----------------------------------------------------------------------------
(* Pages.                                                                  *)

(* The store of a new page asks for the settings with a synchronous call.  *)
OpenPage(p) ==
  /\ p \notin open
  /\ open' = open \cup {p}
  /\ view' = [view EXCEPT ![p] = object]
  /\ UNCHANGED <<object, disk, shown, toMain, toPage, outside, wanted, raced>>

(* The section of the settings page, or the dialog of the player, which is *)
(* kept once it has been opened.                                           *)
ShowControls(p) ==
  /\ p \in open \ shown
  /\ shown' = shown \cup {p}
  /\ UNCHANGED <<object, disk, open, view, toMain, toPage, outside, wanted, raced>>

HideControls(p) ==
  /\ p \in shown \cap SettingsPages
  /\ shown' = shown \ {p}
  /\ UNCHANGED <<object, disk, open, view, toMain, toPage, outside, wanted, raced>>

(* Operators named after what they do wrong, here and below, are variants  *)
(* of the operator that follows them; no specification uses them.          *)
WatchersCheckNothing(p, new) == IF p \in shown THEN Watched(p) ELSE {}

(* A watcher fires when its value is not what it was.                      *)
Fired(p, new) == IF p \in shown THEN {k \in Watched(p) : new[k] # view[p][k]} ELSE {}

(* The page's settings become new; each watcher saves, and so may the      *)
(* method that made the change.                                            *)
Become(p, new, saves) ==
  LET n == saves + Cardinality(Fired(p, new))
  IN /\ Len(toMain[p]) + n <= MaxQueue
     /\ view' = [view EXCEPT ![p] = new]
     /\ toMain' = [toMain EXCEPT ![p] = @ \o [i \in 1..n |-> new]]

SavesUnasked(k) == 0
(* changePlayerSetting and its like save; a control's v-model does not.    *)
SavesOf(k) == IF k = "hotDetection" THEN 1 ELSE 0

Edit(p, k) ==
  /\ edits < MaxEdits /\ p \in open /\ k \in Editable(p)
  /\ k = "hotDetection" \/ p \in shown
  /\ LET new == [view[p] EXCEPT ![k] = 1 - @]
     IN /\ Become(p, new, SavesOf(k))
        /\ wanted' = [wanted EXCEPT ![k] = new[k]]
  /\ raced' = (raced \/ ~Quiet)
  /\ edits' = edits + 1
  /\ UNCHANGED <<object, disk, open, shown, toPage, themes, restarts>>

(* update-settings.                                                        *)
Receive(p) ==
  /\ toPage[p] # <<>>
  /\ Become(p, Head(toPage[p]), 0)
  /\ toPage' = [toPage EXCEPT ![p] = Tail(@)]
  /\ UNCHANGED <<object, disk, open, shown, outside, wanted, raced>>

-----------------------------------------------------------------------------
(* The main process.                                                       *)

SendTo(receivers, new) ==
  /\ \A q \in receivers : Len(toPage[q]) < MaxQueue
  /\ toPage' = [q \in Pages |-> IF q \in receivers THEN Append(toPage[q], new) ELSE toPage[q]]

AllButTheSender(p) == open \ {p}
(* update: every page is sent the settings, the one that saved included.   *)
Receivers(p) == open

(* Only whether the counter is 0 is ever asked: it is counted up to 2.     *)
CountUp == pendingSaving' = IF pendingSaving = 0 THEN 1 ELSE 2

(* addToSaveQueue: a change that comes during a write is only counted.     *)
AddToSaveQueue(new) ==
  /\ CountUp
  /\ writes' = IF pendingSaving = 0 THEN Append(writes, new) ELSE writes
  /\ missed' = (writes # <<>>)

SaveSettings(p) ==
  /\ toMain[p] # <<>>
  /\ toMain' = [toMain EXCEPT ![p] = Tail(@)]
  /\ object' = Head(toMain[p])
  /\ SendTo(Receivers(p), object')
  /\ AddToSaveQueue(object')
  /\ UNCHANGED <<file, open, shown, view, outside, wanted, raced>>

(* nativeTheme tells of a change: a broadcast without a save.              *)
ThemeUpdated ==
  /\ themes < MaxThemes
  /\ themes' = themes + 1
  /\ SendTo(open, object)
  /\ raced' = (raced \/ ~Quiet)
  /\ UNCHANGED <<object, disk, open, shown, view, toMain, edits, restarts, wanted>>

ForgetsAfterError(ok) == IF ok THEN 0 ELSE pendingSaving
PendingAfterWrite(ok) == 0

(* A write ends or fails; the counter is reset in both cases.  One that    *)
(* fails has left the old file alone or cut it short.                      *)
WriteEnds(i, ok) ==
  /\ i \in 1..Len(writes)
  /\ writes' = [n \in 1..(Len(writes) - 1) |-> writes[IF n < i THEN n ELSE n + 1]]
  /\ file' \in IF ok THEN {writes[i]} ELSE {file, Torn}
  /\ missed' = (missed \/ ~ok)
  /\ pendingSaving' = PendingAfterWrite(ok)
  /\ UNCHANGED <<object, open, shown, view, toMain, toPage, outside, wanted, raced>>

(* The application quits, with whatever was on the way, and starts again:  *)
(* load falls back to the defaults when the file is cut short.             *)
LeftByWrites == IF writes = <<>> THEN {file} ELSE {file, Torn} \cup {writes[i] : i \in DOMAIN writes}
LoadedAsIs == file'
Loaded == IF file' = Torn THEN Defaults ELSE file'

Restart ==
  LET settled == Quiet /\ writes = <<>> /\ ~missed
  IN /\ restarts < MaxRestarts
     /\ restarts' = restarts + 1
     /\ file' \in LeftByWrites
     /\ object' = Loaded
     /\ wanted' = IF settled THEN wanted ELSE object'
     /\ raced' = (raced /\ settled)
     /\ missed' = (file' = Torn)
     /\ writes' = <<>> /\ pendingSaving' = 0
     /\ open' = {} /\ shown' = {}
     /\ toMain' = [p \in Pages |-> <<>>] /\ toPage' = [p \in Pages |-> <<>>]
     /\ view' = [p \in Pages |-> Defaults]
     /\ UNCHANGED <<edits, themes>>

-----------------------------------------------------------------------------
Traffic == \E p \in Pages : Receive(p) \/ SaveSettings(p)

(* Nothing is left to do, or a bound on the messages stops the model.      *)
Stopped ==
  /\ \/ Quiet /\ writes = <<>>
     \/ \E p \in Pages : Len(toMain[p]) + 1 >= MaxQueue \/ Len(toPage[p]) = MaxQueue
  /\ UNCHANGED vars

Next ==
  \/ \E p \in Pages : OpenPage(p) \/ ShowControls(p) \/ HideControls(p)
  \/ \E p \in Pages : \E k \in Keys : Edit(p, k)
  \/ Traffic
  \/ ThemeUpdated
  \/ \E i \in 1..Len(writes) : \E ok \in BOOLEAN : WriteEnds(i, ok)
  \/ Restart
  \/ Stopped

(* Messages are delivered and handled in both processes.                   *)
Spec == Init /\ [][Next]_vars /\ \A p \in Pages : WF_vars(Receive(p)) /\ WF_vars(SaveSettings(p))

-----------------------------------------------------------------------------
(* Properties.                                                             *)

(* Writes of the file do not overlap, so an older content cannot end up    *)
(* over a newer one: pendingSaving is zero exactly when none is going on,  *)
(* also after one has failed.  What the file may lack: after the last      *)
(* write it is the object, unless a change came during that write or the   *)
(* write failed.                                                           *)
FileCurrent ==
  /\ Len(writes) <= 1
  /\ pendingSaving = 0 <=> writes = <<>>
  /\ writes = <<>> /\ ~missed => file = object

(* When no message is left every page shows what the main process has,     *)
(* however many pages edited at the same time.                             *)
PagesAgree ==
  Quiet => \A p \in open : \A k \in Saved : view[p][k] = object[k]

(* The user's edits last, restarts included, as long as each was made when *)
(* the one before had reached every page and no theme change came between: *)
(* a page saves its whole copy, so a stale one takes other settings back,  *)
(* and a broadcast that crosses an edit takes the edit back.               *)
EditsKept == Quiet /\ ~raced => \A k \in Saved : object[k] = wanted[k]

(* The echoes of the watchers die out, as long as nothing was broadcast    *)
(* while messages were on the way: two values under way may echo each      *)
(* other for ever.                                                         *)
EchoesEnd == ~Quiet ~> (Quiet \/ raced)
=============================================================================
