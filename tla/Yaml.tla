-------------------------------- MODULE Yaml --------------------------------
(***************************************************************************)
(* How a yaml file becomes a configuration: YamlPreprocessor expands       *)
(* $eval, $include and $[include]; a plugin reads the result through a     *)
(* YamlReader, which remembers the keys it was asked for                   *)
(* (flatland_server/src/yaml_preprocessor.cpp, yaml_reader.cpp).           *)
(*                                                                         *)
(* A node is a record with a kind: "null", "scalar" (with a type that the  *)
(* reader can convert it to), "seq", "map", or a scalar with a marker,     *)
(* "eval", "include" or "splice".  A path is a sequence of names, a file a *)
(* sequence of documents.  Numbers, and the text of a scalar, are what     *)
(* Lua, the environment and yaml-cpp make of them.                         *)
(***************************************************************************)
EXTENDS Integers, SequencesExt

CONSTANTS
  Sets,     \* sets of files that are tried, functions from paths
  Top,      \* path of the file that is loaded
  Cwd,      \* working directory, a path
  Env,      \* environment variables: scalars by name
  Params,   \* ROS parameters: scalars by name
  Depth,    \* bound on nested includes, beyond which the stack overflows
  Schemas   \* what a reader asks for: sequences of [key, wants, optional]

VARIABLES
  files,     \* what is on disk
  phase,     \* "start", "read", "accepted", "refused" or "overflow"
  node,      \* YamlReader::node_
  schema,    \* the reads of the plugin's OnInitialize
  asked,     \* how many of them are done
  accessed   \* accessed_keys_

yamlVars == <<files, phase, node, schema, asked, accessed>>

Null == [kind |-> "null"]
Scalar(type) == [kind |-> "scalar", type |-> type]
Thrown == [kind |-> "thrown"]
Endless == [kind |-> "endless"]
Broken(n) == n.kind \in {"thrown", "endless"}

-----------------------------------------------------------------------------
(***************************************************************************)
(* YamlPreprocessor                                                        *)
(***************************************************************************)

(* LuaGetEnv: a default of another type is left on the stack and returned. *)
LuaGetEnv(e) ==
  IF e.name \in DOMAIN Env THEN Env[e.name]
  ELSE IF e.default = "none" THEN "nil" ELSE e.default

(* LuaGetParam: a parameter of type bool is returned as a string, a        *)
(* default of another type as nil.                                         *)
LuaGetParam(e) ==
  LET plain(type) == IF type \in {"number", "bool", "string"} THEN type ELSE "nil"
      given == Params[e.name]
  IN IF e.name \in DOMAIN Params THEN IF given = "bool" THEN "string" ELSE plain(given)
     ELSE IF e.default = "none" THEN "nil" ELSE plain(e.default)

(* Lua that fails, or returns no value a node can have, leaves the node as *)
(* it is; nil becomes the empty string.                                    *)
ProcessEvalNode(n) ==
  LET value == CASE n.call = "env" -> LuaGetEnv(n)
                 [] n.call = "param" -> LuaGetParam(n)
                 [] OTHER -> n.call
  IN CASE value = "nil" -> Scalar("string")
       [] value \in {"bool", "string", "number"} -> Scalar(value)
       [] OTHER -> n

(* Relative to the directory of the file that names it.                    *)
MutantResolveIncludeFilePath(n, ref) ==
  IF n.absolute THEN n.file ELSE Front(Top) \o n.file
ResolveIncludeFilePath(n, ref) ==
  IF n.absolute THEN n.file
  ELSE (IF ref = << >> THEN Cwd ELSE Front(ref)) \o n.file

(* YAML::LoadFile.                                                         *)
First(path) == IF files[path] = << >> THEN Null ELSE Head(files[path])

RECURSIVE ProcessNodes(_, _, _)

(* The documents of an included file, or the exception.                    *)
Included(n, ref, fuel, all) ==
  LET path == ResolveIncludeFilePath(n, ref)
  IN IF fuel = 0 THEN <<Endless>>
     ELSE IF path \notin DOMAIN files THEN <<Thrown>>
     ELSE LET docs == IF all THEN files[path] ELSE <<First(path)>>
          IN [i \in DOMAIN docs |-> ProcessNodes(docs[i], path, fuel - 1)]

(* The node is replaced by what it stands for; what is included goes into  *)
(* the sequence at its place.  Outside of a sequence, $[include] is text.  *)
ProcessNodes(n, ref, fuel) ==
  CASE n.kind = "seq" ->
         LET child(i) == IF n.items[i].kind = "splice"
                         THEN Included(n.items[i], ref, fuel, TRUE)
                         ELSE <<ProcessNodes(n.items[i], ref, fuel)>>
             items == FlattenSeq([i \in DOMAIN n.items |-> child(i)])
         IN IF \E i \in DOMAIN items : Broken(items[i])
            THEN CHOOSE bad \in ToSet(items) : Broken(bad)
            ELSE [n EXCEPT !.items = items]
    [] n.kind = "map" ->
         LET values == [k \in DOMAIN n.at |-> ProcessNodes(n.at[k], ref, fuel)]
         IN IF \E k \in DOMAIN values : Broken(values[k])
            THEN CHOOSE bad \in { values[k] : k \in DOMAIN values } : Broken(bad)
            ELSE [n EXCEPT !.at = values]
    [] n.kind = "eval" -> ProcessEvalNode(n)
    [] n.kind = "include" -> Head(Included(n, ref, fuel, FALSE))
    [] OTHER -> n

-----------------------------------------------------------------------------
(***************************************************************************)
(* YamlReader                                                              *)
(***************************************************************************)

(* A node of a reader goes through the preprocessor again, as one without  *)
(* a file.                                                                 *)
At(key) == IF node.kind = "map" /\ key \in DOMAIN node.at
           THEN ProcessNodes(node.at[key], << >>, Depth) ELSE Null

(* Subnode's checks, As and AsArray.                                       *)
Fits(n, wants) ==
  CASE wants = "map" -> n.kind = "map"
    [] wants = "list" -> n.kind = "seq"
    [] wants = "pair" -> /\ n.kind = "seq" /\ Len(n.items) = 2
                         /\ \A i \in 1 .. 2 : n.items[i].kind = "scalar"
                                              /\ n.items[i].type = "number"
    [] wants = "string" -> n.kind \in {"scalar", "eval", "splice"}
    [] OTHER -> n.kind = "scalar" /\ n.type = wants

(* Get, GetList, GetArray, Subnode, and their forms with a default.        *)
Has(key) == node.kind = "map" /\ key \in DOMAIN node.at
Get(read) ==
  /\ accessed' = accessed \cup {read.key}
  /\ asked' = asked + 1
  /\ phase' = IF IF Has(read.key) THEN Fits(At(read.key), read.wants)
                 ELSE read.optional
              THEN phase ELSE "refused"
  /\ UNCHANGED <<files, node, schema>>

Unused == \E key \in DOMAIN node.at : key \notin accessed
EnsureAccessedAllKeys ==
  /\ phase' = IF node.kind # "map" \/ Unused THEN "refused" ELSE "accepted"
  /\ UNCHANGED <<files, node, schema, asked, accessed>>

-----------------------------------------------------------------------------
YamlInit ==
  /\ files \in Sets /\ schema \in Schemas
  /\ phase = "start" /\ node = Null /\ asked = 0 /\ accessed = {}

(* YamlReader(path).                                                       *)
LoadFile ==
  /\ phase = "start"
  /\ LET loaded == IF Top \notin DOMAIN files THEN Thrown
                   ELSE ProcessNodes(First(Top), Top, Depth)
     IN /\ phase' = CASE loaded = Thrown -> "refused"
                      [] loaded = Endless -> "overflow"
                      [] OTHER -> "read"
        /\ node' = loaded
  /\ UNCHANGED <<files, schema, asked, accessed>>

Read == /\ phase = "read"
        /\ IF asked < Len(schema) THEN Get(schema[asked + 1]) ELSE EnsureAccessedAllKeys

YamlNext == LoadFile \/ Read
YamlSpec == YamlInit /\ [][YamlNext]_yamlVars

-----------------------------------------------------------------------------
(***************************************************************************)
(* Properties                                                              *)
(***************************************************************************)

RECURSIVE Nodes(_)
Nodes(n) ==
  {n} \cup CASE n.kind = "seq" -> UNION { Nodes(n.items[i]) : i \in DOMAIN n.items }
             [] n.kind = "map" -> UNION { Nodes(n.at[k]) : k \in DOMAIN n.at }
             [] OTHER -> {}
IncludesOf(docs) ==
  { n \in UNION { Nodes(docs[i]) : i \in DOMAIN docs } : n.kind = "include" }
  \cup UNION { { n.items[i] : i \in { k \in DOMAIN n.items : n.items[k].kind = "splice" } } :
                 n \in { m \in UNION { Nodes(docs[i]) : i \in DOMAIN docs } : m.kind = "seq" } }

(* Includes were resolved, once and for all, or one of them was missing.   *)
Expanded ==
  /\ phase = "refused" /\ asked = 0 =>
       \/ Top \notin DOMAIN files
       \/ \E p \in DOMAIN files : \E n \in IncludesOf(files[p]) :
            IF n.absolute THEN n.file \notin DOMAIN files
            ELSE Front(p) \o n.file \notin DOMAIN files
  /\ phase = "read" => /\ IncludesOf(<<node>>) = {}
                       /\ ProcessNodes(node, << >>, Depth) = node

Keys == IF node.kind = "map" THEN DOMAIN node.at ELSE {}
Described(k) == \E i \in DOMAIN schema : schema[i].key = k
Fitting ==
  /\ node.kind = "map"
  /\ \A k \in Keys : Described(k)
  /\ \A i \in DOMAIN schema : IF schema[i].key \in Keys
                               THEN Fits(At(schema[i].key), schema[i].wants)
                               ELSE schema[i].optional

(* Wherever files include each other, a configuration whose relative names *)
(* all exist beside the file that names them loads, without a marker left, *)
(* in one pass: reading it again, without its path, changes nothing.  And  *)
(* a reader takes exactly the configurations its plugin describes: those   *)
(* whose keys it asks for, each of the type it wants, none of the required *)
(* missing; "Make sure there are no unused keys" does not depend on the    *)
(* order of the reads or on what the defaults stood in for.                *)
ReadsAsWritten ==
  /\ Expanded
  /\ phase = "accepted" => Fitting
  /\ phase = "refused" /\ node # Thrown => ~Fitting
=============================================================================
