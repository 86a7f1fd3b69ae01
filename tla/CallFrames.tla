----------------------------- MODULE CallFrames -----------------------------
(***************************************************************************)
(* Debug call frames: the checks of verification.rs and the mapping of     *)
(* normalization.rs.  A call tree is a function from trace addresses (a    *)
(* prefix-closed set of sequences of child positions) to frames, so that   *)
(* the source's recursion is a quantification over addresses.  The reason  *)
(* a tree is refused for is left out.                                      *)
(***************************************************************************)
EXTENDS Commitments

Kinds == {"Call", "CallCode", "DelegateCall", "StaticCall", "Invalid", "Create", "Create2",
          "Selfdestruct", "Stop", "Unknown"}
IsCall(kind) == kind \in {"Call", "CallCode", "DelegateCall", "StaticCall", "Invalid"}
IsRootCall(kind) == kind \in {"Call", "Invalid"}
IsCreate(kind) == kind \in {"Create", "Create2"}
IsSelfdestruct(kind) == kind = "Selfdestruct"
PreservesContext(kind) == kind \in {"CallCode", "DelegateCall"}
NormalizedKind(kind) ==
  CASE IsCall(kind) -> "call"
    [] IsCreate(kind) -> "create"
    [] IsSelfdestruct(kind) -> "selfdestruct"
    [] OTHER -> "unknown"
IsMappable(kind) == NormalizedKind(kind) # "unknown"

(* An address is well formed or not; "" is the empty string.               *)
IsAddress(a) == a \notin {"", "malformed"}
Present(field) == field \notin {None, ""}

Root == << >>
Children(tree, p) == {q \in DOMAIN tree : Len(q) = Len(p) + 1 /\ IsPrefix(p, q)}

-----------------------------------------------------------------------------
(* What a frame needs to be mapped without dropping or inventing data.     *)
FrameFits(f) ==
  /\ IsMappable(f.kind)
  /\ IsAddress(f.from)
  /\ f.to # None => IsAddress(f.to) \/ (IsCreate(f.kind) /\ f.to = "")
  /\ IsCall(f.kind) => f.to # None /\ f.input # None
  /\ IsCreate(f.kind) =>
       f.input # None /\ (Present(f.to) \/ Present(f.output) => Present(f.gas_used))
  /\ IsSelfdestruct(f.kind) => f.to # None

(* Mutant: a STOP is let through wherever it stands.                       *)
CheckDebugFrameStructureAnyStop(tree) ==
  \A p \in DOMAIN tree : tree[p].kind = "Stop" \/ FrameFits(tree[p])

(* A root STOP stands for an empty trace; below the root it would occupy   *)
(* a place that no record fills.                                           *)
CheckDebugFrameStructure(tree) ==
  IF tree[Root].kind = "Stop" THEN Children(tree, Root) = {}
  ELSE \A p \in DOMAIN tree : FrameFits(tree[p])

(* check_subcalls descends through mappable frames only.                   *)
Reached(tree, p) == \A k \in 1 .. Len(p) : IsMappable(tree[SubSeq(p, 1, k)].kind)
Executor(f) == IF PreservesContext(f.kind) THEN f.from ELSE f.to

CheckSubcalls(tree) ==
  \A p \in DOMAIN tree : Reached(tree, p) =>
    \A q \in Children(tree, p) :
      /\ Executor(tree[p]) # None => tree[q].from = Executor(tree[p])
      /\ IsSelfdestruct(tree[q].kind) => tree[q].to # None

CheckCallFrameTree(tx, tree) ==
  LET root == tree[Root] IN
  \/ root.kind = "Stop"
  \/ /\ root.from = tx.from
     /\ IF tx.to = None THEN IsCreate(root.kind) ELSE IsRootCall(root.kind) /\ root.to = tx.to
     /\ CheckSubcalls(tree)

-----------------------------------------------------------------------------
(* traverse_debug_frame: the frames in the order the calls were made.      *)
Before(p, q) ==
  \/ IsStrictPrefix(p, q)
  \/ \E i \in DOMAIN p \cap DOMAIN q : SubSeq(p, 1, i - 1) = SubSeq(q, 1, i - 1) /\ p[i] < q[i]
TraverseDebugFrame(tree) == SetToSortSeq(DOMAIN tree, Before)

(* A create is always mapped; a call or selfdestruct needs its target.     *)
IsMapped(f) == IsCreate(f.kind) \/ (IsMappable(f.kind) /\ f.to # None)

(* The result of a create leaves out what is empty, of a call what is absent. *)
FrameResult(f) ==
  CASE IsCreate(f.kind) -> Present(f.gas_used) \/ Present(f.output) \/ Present(f.to)
    [] IsCall(f.kind) -> f.gas_used # None \/ f.output # None
    [] OTHER -> FALSE

MapDebugFrame(index, tree) ==
  LET order == SelectSeq(TraverseDebugFrame(tree), LAMBDA p : IsMapped(tree[p])) IN
  IF tree[Root].kind = "Stop" /\ Children(tree, Root) = {} THEN << >>
  ELSE [i \in DOMAIN order |->
          [transaction_index |-> index, trace_address |-> order[i],
           type |-> NormalizedKind(tree[order[i]].kind), from |-> tree[order[i]].from,
           subtraces |-> Cardinality(Children(tree, order[i])), result |-> FrameResult(tree[order[i]])]]
=============================================================================
