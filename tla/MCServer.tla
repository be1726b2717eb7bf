------------------------------ MODULE MCServer ------------------------------
(* The server and who calls it: the main loop with the timer of a plugin,  *)
(* the layers and collision groups of three fixtures, the life of two      *)
(* models, the reading of yaml files, the tool that asks for models, and   *)
(* the viewer that follows them.  A behaviour is one of one of the six.    *)
EXTENDS SimulationManager, Viewer, WorldModels, CollisionFilter

CONSTANTS no_file, off_ground

VARIABLES which,
  active, dialog, chosen, numbering, count, offered, state, file, name, spot, angle,
  cursor, preview, ready, request, left,
  files, phase, node, schema, asked, accessed

(* Two bits for layers, so that a third layer finds the table full, and    *)
(* group indices of three bits.                                            *)
MCLayerName == {"l1", "l2", "l3"}
MCFixture == {"f1", "f2", "f3"}
MCName == {"a", "b"}

Tool == INSTANCE SpawnTool WITH
  Files <- {"f1", "f2"}, NoFile <- no_file, Points <- {0, 1}, Off <- off_ground,
  MaxCount <- 2, at <- spot

(* Files that include one another by relative and absolute paths, with a   *)
(* sequence to splice; a missing file, a missing variable, an expression   *)
(* that fails, a file that includes itself; and readers that ask for what  *)
(* is there, for less, and for something else.                             *)
map(f) == [kind |-> "map", at |-> f]
seq(s) == [kind |-> "seq", items |-> s]
scalar(type) == [kind |-> "scalar", type |-> type]
include(path) == [kind |-> "include", absolute |-> FALSE, file |-> path]
included(path) == [kind |-> "include", absolute |-> TRUE, file |-> path]
splice(path) == [kind |-> "splice", absolute |-> FALSE, file |-> path]
eval(call, variable, default) ==
  [kind |-> "eval", call |-> call, name |-> variable, default |-> default]
worldFile == <<"w", "world">>
bodiesFile == <<"w", "parts", "bodies">>
poseFile == <<"w", "parts", "pose">>
tree == (worldFile :> <<map([bodies |-> seq(<<splice(<<"parts", "bodies">>), scalar("number")>>),
                             pose |-> include(<<"parts", "pose">>)])>>)
     @@ (bodiesFile :> <<include(<<"pose">>), scalar("number")>>)
     @@ (poseFile :> <<seq(<<eval("param", "p", "none"), eval("env", "e", "number")>>)>>)
BadFile == worldFile :> <<seq(<<eval("error", "", "none")>>)>>
MCSets ==
  { tree, BadFile,
    (worldFile :> <<map([pose |-> included(poseFile), bodies |-> splice(<<"parts">>)])>>)
      @@ (poseFile :> <<scalar("number"), include(<<"gone">>)>>),
    [p \in {bodiesFile, poseFile} |-> tree[p]],
    [p \in {worldFile, bodiesFile} |-> tree[p]],
    (worldFile :> <<map([name |-> eval("env", "none", "table"),
                         pose |-> include(<<"parts", "pose">>),
                         extra |-> eval("param", "flag", "none")])>>)
      @@ (poseFile :> tree[poseFile]),
    worldFile :> <<seq(<<include(<<"world">>)>>)>> }
read(key, wants, optional) == [key |-> key, wants |-> wants, optional |-> optional]
MCSchemas ==
  { <<read("pose", "pair", TRUE), read("bodies", "list", FALSE)>>,
    <<read("bodies", "list", TRUE), read("pose", "pair", FALSE),
      read("name", "string", TRUE), read("extra", "bool", TRUE)>>,
    <<read("bodies", "string", TRUE), read("pose", "number", FALSE)>>,
    <<read("pose", "pair", TRUE), read("name", "string", TRUE),
      read("extra", "string", TRUE)>> }
Y == INSTANCE Yaml WITH
  Sets <- MCSets, Top <- worldFile, Cwd <- <<"home">>, Env <- [f |-> "string"],
  Params <- [p |-> "number", flag |-> "bool"], Depth <- 4, Schemas <- MCSchemas

(* Models of one or two bodies with markers of each kind, and an empty one.*)
visible(visual, shapes) == [visual |-> visual, fixtures |-> shapes]
MCGround == <<visible("plain", <<"chain", "edge", "edge">>)>>
MCLooks ==
  { [bodies |-> <<visible("plain", <<"polygon", "circle">>),
                  visible("wheel", <<"circle">>)>>, joints |-> 1],
    [bodies |-> <<visible("caster", << >>), visible("mesh", <<"polygon">>)>>,
     joints |-> 0],
    [bodies |-> << >>, joints |-> 0] }

toolVars == <<active, dialog, chosen, numbering, count, offered, state, file, name, spot, angle,
              cursor, preview, ready, request, left>>
yamlVars == <<files, phase, node, schema, asked, accessed>>
all == <<which, vars, filterVars, lifeVars, toolVars, yamlVars, viewVars>>

(* The parts that a behaviour is not about.                                *)
LoopIdle == Init /\ step = 1 /\ period = 0
FilterIdle == FilterInit
LifeIdle == LifeInit
ToolIdle == Tool!SpawnInit /\ spot = 0 /\ angle = 0 /\ ready
YamlIdle == /\ Y!YamlInit /\ files = BadFile /\ Len(schema) = 2
            /\ schema[1].key = "pose"
ViewIdle == ViewInit /\ \A m \in DOMAIN world : world[m].bodies = << >>

MCInit ==
  \/ /\ which = "loop" /\ Init
     /\ FilterIdle /\ LifeIdle /\ ToolIdle /\ YamlIdle /\ ViewIdle
  \/ /\ which = "filter" /\ FilterInit
     /\ LoopIdle /\ LifeIdle /\ ToolIdle /\ YamlIdle /\ ViewIdle
  \/ /\ which = "life" /\ LifeInit
     /\ LoopIdle /\ FilterIdle /\ ToolIdle /\ YamlIdle /\ ViewIdle
  \/ /\ which = "tool" /\ Tool!SpawnInit
     /\ LoopIdle /\ FilterIdle /\ LifeIdle /\ YamlIdle /\ ViewIdle
  \/ /\ which = "yaml" /\ Y!YamlInit
     /\ LoopIdle /\ FilterIdle /\ LifeIdle /\ ToolIdle /\ ViewIdle
  \/ /\ which = "view" /\ ViewInit
     /\ LoopIdle /\ FilterIdle /\ LifeIdle /\ ToolIdle /\ YamlIdle

LoopSteps == /\ which = "loop"
             /\ UNCHANGED <<which, filterVars, lifeVars, toolVars, yamlVars, viewVars>>
FilterSteps == /\ which = "filter"
               /\ UNCHANGED <<which, vars, lifeVars, toolVars, yamlVars, viewVars>>
LifeSteps == /\ which = "life"
             /\ UNCHANGED <<which, vars, filterVars, toolVars, yamlVars, viewVars>>
ToolSteps == /\ which = "tool"
             /\ UNCHANGED <<which, vars, filterVars, lifeVars, yamlVars, viewVars>>
YamlSteps == /\ which = "yaml"
             /\ UNCHANGED <<which, vars, filterVars, lifeVars, toolVars, viewVars>>
ViewSteps == /\ which = "view"
             /\ UNCHANGED <<which, vars, filterVars, lifeVars, toolVars, yamlVars>>

MCNext ==
  \/ LoopSteps /\ Next
  \/ FilterSteps /\ FilterNext
  \/ LifeSteps /\ LifeNext
  \/ ToolSteps /\ Tool!SpawnNext
  \/ YamlSteps /\ Y!YamlNext
  \/ ViewSteps /\ ViewNext

(* The fairness of ViewSpec                                                *)
Fair == /\ WF_all(ViewSteps /\ DrawAndPublish)
        /\ WF_all(ViewSteps /\ Receive) /\ WF_all(ViewSteps /\ DebugTimer)

MCSpec == MCInit /\ [][MCNext]_all /\ Fair

(* Definitions of the instances under names a .cfg can use, some with the  *)
(* types they rest on.                                                     *)
SpawnedAsShown == Tool!SpawnedAsShown
ReadsAsWritten == Y!ReadsAsWritten
=============================================================================
