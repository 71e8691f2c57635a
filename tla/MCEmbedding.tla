------------------------------ MODULE MCEmbedding ------------------------------
(***************************************************************************)
(* The library as its hosts see it: Python's dicts and stack, the drop of  *)
(* what an evaluation made, the C ABI's handles, and host functions' names *)
(* in an expression.  Each is explored by itself, the others at rest.      *)
(***************************************************************************)
EXTENDS PythonExtension, MCDropDeep, HostFunctions, Handle

(***************************************************************************)
(* A builtin of each kind, and a name that is the host's or a variable's.  *)
(***************************************************************************)
MCNames == {"string", "map", "now", "f"}
MCFns   == Closures \cup {<<"reference", n>> : n \in MCNames}

(***************************************************************************)
(* A Python program: a dict that holds another, in itself or in a list,    *)
(* and what else it may be made to hold.                                   *)
(***************************************************************************)
MCPyValues ==
  {[k |-> "scalar"], [k |-> "dict", d |-> "inner"],
   [k |-> "list", items |-> <<[k |-> "dict", d |-> "inner"]>>], [k |-> "bad"]}

MCPyInit ==
  /\ PyInit /\ dicts["inner"] = [f \in Keys |-> NotThere]
  /\ dicts["outer"] = [f \in Keys |-> NotThere]

\* Only the outer dict changes: the inner one is there to be wrapped.
MCPyNext == PyNext /\ dicts'["inner"] = dicts["inner"]

(***************************************************************************)
(* The parts beside each other.                                            *)
(***************************************************************************)

VARIABLE part

PythonRests == MCPyInit /\ api /\ measured
DropsRest   == DropInit /\ known /\ heap = ChainOf({})
NamesRest   == NamesInit /\ hosts = {}

EmbeddingInit ==
  \/ part = "python" /\ MCPyInit /\ DropsRest /\ NamesRest /\ HandleInit
  \/ part = "drops" /\ PythonRests /\ DropInit /\ NamesRest /\ HandleInit
  \/ part = "names" /\ PythonRests /\ DropsRest /\ NamesInit /\ HandleInit
  \/ part = "handle" /\ PythonRests /\ DropsRest /\ NamesRest /\ HandleInit

EmbeddingNext ==
  /\ UNCHANGED part
  /\ \/ part = "python" /\ MCPyNext /\ UNCHANGED <<dropVars, namesVars, handleVars>>
     \/ part = "drops" /\ DropNext /\ UNCHANGED <<pyVars, namesVars, handleVars>>
     \/ part = "names" /\ NamesNext /\ UNCHANGED <<pyVars, dropVars, handleVars>>
     \/ part = "handle" /\ HandleNext /\ UNCHANGED <<pyVars, dropVars, namesVars>>

EmbeddingSpec == EmbeddingInit /\ [][EmbeddingNext]_<<part, pyVars, dropVars, namesVars, handleVars>>

\* What there is of each part's state: wrappers and the marks that their drop goes by,
\* the stack of drops, host functions of names that may be registered, and the slot.
EmbeddingTypeOK == PyTypeOK /\ DropTypeOK /\ NamesTypeOK /\ HandleTypeOK
=============================================================================
