----------------------------- MODULE SpawnTool -----------------------------
(***************************************************************************)
(* The tool of flatland_viz that spawns a model: a dialog asks for a file  *)
(* and a name, a first click places the preview, a second one sets its     *)
(* heading and calls spawn_model (flatland_viz/src/spawn_model_tool.cpp,   *)
(* load_model_dialog.cpp).                                                 *)
(*                                                                         *)
(* The ground is a line of points; a heading is 0 or 180 degrees, and Off  *)
(* is a place on the screen that shows no ground.  The dialog is modal:    *)
(* while it is open the view gets no mouse event.  RViz hands the tool     *)
(* events only between activate and deactivate.                            *)
(***************************************************************************)
EXTENDS Integers, FiniteSets

CONSTANTS
  Files,   \* yaml files of models that can be read
  NoFile,  \* what the dialog says when none is chosen, or one that cannot be
  Points,  \* integers: points of the ground
  Off,     \* no ground under the cursor
  MaxCount \* bound on the dialog's counter

VARIABLES
  active,     \* RViz has the tool selected
  dialog,     \* the dialog: "closed" or "open"
  chosen,     \* LoadModelDialog::path_to_model_file
  numbering,  \* its check box
  count,      \* its counter
  offered,    \* text of the name field: <<file, number or 0>>
  state,      \* model_state: "hidden", "dragging", "rotating"; "down" when
              \* an exception has ended the viewer
  file,       \* path_to_model_file_
  name,       \* model_name
  at,         \* intersection
  angle,      \* initial_angle
  cursor,     \* where the mouse is
  preview,    \* what moving_model_node_ shows: [file, at, angle, visible]
  ready,      \* the spawn_model service is there
  request,    \* history: the request sent last
  left        \* history: the tool was left, and has not shown the preview since

spawnVars == <<active, dialog, chosen, numbering, count, offered, state, file,
               name, at, angle, cursor, preview, ready, request, left>>

SpawnInit ==
  /\ active = FALSE /\ dialog = "closed" /\ chosen = NoFile
  /\ numbering = FALSE /\ count = 0 /\ offered = <<NoFile, 0>>
  /\ state = "hidden" /\ file = NoFile /\ name = <<NoFile, 0>>
  /\ at \in Points /\ angle \in {0, 180}
  /\ cursor = Off /\ ready \in BOOLEAN /\ request = <<>> /\ left = FALSE
  /\ preview = [file |-> NoFile, at |-> 0, angle |-> 0, visible |-> FALSE]

-----------------------------------------------------------------------------
(* The dialog                                                              *)

AddNumberAndUpdateName(path, numbered) ==
  /\ offered' = <<path, IF numbered THEN count ELSE 0>>
  /\ count' = IF numbered THEN count + 1 ELSE count

Tool == <<state, file, name, at, angle, cursor, preview, ready, request>>

Activate ==
  /\ ~active /\ dialog = "closed" /\ state # "down" /\ count < MaxCount
  /\ active' = TRUE /\ dialog' = "open"
  /\ AddNumberAndUpdateName(chosen, numbering)
  /\ UNCHANGED <<chosen, numbering, Tool>>

ChooseFile(f) ==
  /\ dialog = "open" /\ count < MaxCount
  /\ chosen' = f
  /\ AddNumberAndUpdateName(f, numbering)
  /\ UNCHANGED <<active, dialog, numbering, Tool>>

NumberCheckBoxChanged ==
  /\ dialog = "open" /\ count < MaxCount
  /\ numbering' = ~numbering
  /\ AddNumberAndUpdateName(chosen, ~numbering)
  /\ UNCHANGED <<active, dialog, chosen, Tool>>

CancelButtonClicked ==
  /\ dialog = "open"
  /\ dialog' = "closed"
  /\ UNCHANGED <<active, chosen, numbering, count, offered, Tool>>

(* SaveName, SavePath with LoadPreview, BeginPlacement: a file that cannot *)
(* be read throws out of the slot, and nobody catches it.                  *)
LoadPreview(f) == [preview EXCEPT !.file = f]
OkButtonClicked ==
  /\ dialog = "open"
  /\ name' = offered /\ file' = chosen
  /\ IF chosen = NoFile
       THEN state' = "down" /\ UNCHANGED <<dialog, preview>>
       ELSE /\ state' = "dragging" /\ dialog' = "closed"
            /\ preview' = [LoadPreview(chosen) EXCEPT !.visible = TRUE]
  /\ UNCHANGED <<active, chosen, numbering, count, offered, at, angle, cursor,
                 ready, request>>

Deactivate ==
  /\ active /\ dialog = "closed" /\ state # "down"
  /\ active' = FALSE
  /\ preview' = [preview EXCEPT !.visible = FALSE]
  /\ UNCHANGED <<dialog, chosen, numbering, count, offered, state, file, name,
                 at, angle, cursor, ready, request>>

-----------------------------------------------------------------------------
(* Mouse events                                                            *)

Heading(from, to) == IF to < from THEN 180 ELSE 0

(* A move or a release while dragging: the preview follows the ground, and *)
(* hides where there is none.                                              *)
Drag(p) ==
  /\ state = "dragging"
  /\ IF p = Off THEN preview' = [preview EXCEPT !.visible = FALSE] /\ UNCHANGED at
     ELSE at' = p /\ preview' = [preview EXCEPT !.visible = TRUE, !.at = p]
  /\ UNCHANGED <<state, angle>>

(* A move or a release while rotating: the preview turns to the cursor.    *)
Rotate(p) ==
  /\ state = "rotating"
  /\ IF p = Off THEN UNCHANGED <<angle, preview>>
     ELSE /\ angle' = Heading(at, p)
          /\ preview' = [preview EXCEPT !.visible = TRUE, !.at = at,
                                        !.angle = Heading(at, p)]
  /\ UNCHANGED <<state, at>>

Lag(p) ==
  /\ state = "rotating" /\ p # Off
  /\ angle' = Heading(at, p)
  /\ UNCHANGED <<state, at, preview>>
MutantMouse(p) == \/ Drag(p) \/ Lag(p) \/ (state = "rotating" /\ p = Off /\ Rotate(p))
                  \/ (state = "hidden" /\ UNCHANGED <<state, at, angle, preview>>)
Mouse(p) == \/ Drag(p) \/ Rotate(p)
            \/ (state = "hidden" /\ UNCHANGED <<state, at, angle, preview>>)

Event == active /\ dialog = "closed" /\ state # "down"
Dialog == <<active, dialog, chosen, numbering, count, offered, file, name, ready>>

Move(p) ==
  /\ Event
  /\ cursor' = p
  /\ Mouse(p)
  /\ UNCHANGED <<Dialog, request>>

(* The first press pins the preview; its release turns it at once.         *)
Pin ==
  /\ Event /\ state = "dragging" /\ cursor # Off
  /\ state' = "rotating" /\ at' = cursor
  /\ angle' = Heading(cursor, cursor)
  /\ preview' = [preview EXCEPT !.visible = TRUE, !.at = cursor,
                                !.angle = Heading(cursor, cursor)]
  /\ UNCHANGED <<Dialog, cursor, request>>

(* The second one spawns: a service that is not there gets no request, and *)
(* the tool is finished either way.                                        *)
SpawnModelInFlatland ==
  IF ready
    THEN request' = [file |-> file, name |-> name, at |-> at, angle |-> angle]
    ELSE UNCHANGED request

Spawn ==
  /\ Event /\ state = "rotating" /\ cursor # Off
  /\ SpawnModelInFlatland
  /\ state' = "hidden" /\ active' = FALSE
  /\ preview' = [preview EXCEPT !.visible = FALSE]
  /\ UNCHANGED <<dialog, chosen, numbering, count, offered, file, name, at,
                 angle, cursor, ready>>

(* The server starts or stops.                                             *)
Service ==
  /\ ready' = ~ready
  /\ UNCHANGED <<active, dialog, chosen, numbering, count, offered, state,
                 file, name, at, angle, cursor, preview, request>>

(* Deactivate hides a preview that may be pinned already, and nothing but  *)
(* the next move over ground, or another file, shows it again.             *)
SpawnNext ==
  \/ Deactivate /\ left' = TRUE
  \/ /\ \/ Activate \/ NumberCheckBoxChanged \/ CancelButtonClicked
        \/ OkButtonClicked \/ Pin \/ Spawn \/ Service
        \/ \E f \in Files \cup {NoFile} : ChooseFile(f)
        \/ \E p \in Points \cup {Off} : Move(p)
     /\ left' = (left /\ ~preview'.visible)

SpawnSpec == SpawnInit /\ [][SpawnNext]_spawnVars

-----------------------------------------------------------------------------
(* What is spawned is what was shown: a request carries the model of the   *)
(* preview, at the place and with the heading the preview has when the     *)
(* button is pressed, though the place is pinned by one click, the heading *)
(* follows the mouse, the tool may be left and entered again in between    *)
(* and the dialog opened again in the middle.  The preview is in view then *)
(* with one exception: a pinned preview is hidden when the tool is left,   *)
(* and a press that follows the return without a move spawns it unseen.    *)
SpawnedAsShown ==
  [][request' # request =>
       /\ request'.file = preview.file
       /\ request'.at = preview.at /\ request'.angle = preview.angle
       /\ preview.visible \/ left]_spawnVars
=============================================================================
