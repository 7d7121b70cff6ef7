----------------------------- MODULE ToolScope -----------------------------
(***************************************************************************)
(* Which projects a tool call reads, and what it is refused for: the scope *)
(* of the argument, of the client's roots and of the header, the handlers  *)
(* of the turn tools, and the answer of the client that is kept for its    *)
(* session.  A path is a sequence of folders; "wt" is a worktree folder.   *)
(***************************************************************************)
EXTENDS Integers, Sequences, SequencesExt, FiniteSets

Scope == [all : BOOLEAN, roots : SUBSET Seq(STRING), unnamed : BOOLEAN]

Everything == [all |-> TRUE, roots |-> {}, unnamed |-> FALSE]

Roots(set) == [all |-> FALSE, roots |-> set, unnamed |-> FALSE]

(* A worktree stands for the repository that holds it.                     *)
Repository(path) ==
  LET marks == {i \in DOMAIN path : path[i] = "wt"}
  IN  IF marks = {} THEN path
      ELSE SubSeq(path, 1, (CHOOSE i \in marks : \A j \in marks : i <= j) - 1)

(* Mutant: of a folder that is indexed itself the subfolders are left out. *)
FolderAlone(base, known) ==
  IF base \in known THEN {base} ELSE {r \in known : IsPrefix(base, r)}

(* _with_subfolders: the root folder << >> has no subfolders.              *)
WithSubfolders(base, known) ==
  IF base = << >> THEN known \cap {base} ELSE {r \in known : IsPrefix(base, r)}

NearestParent(path, known) ==
  LET parents == {r \in known : r # << >> /\ IsStrictPrefix(r, path)}
  IN  {r \in parents : \A s \in parents : Len(s) <= Len(r)}

NoName == ""

Basename(root) == IF root = << >> THEN NoName ELSE root[Len(root)]

(* A path with no known folder on it, and a name that none has, give no    *)
(* scope at all: every project is read.                                    *)
ScopeOfTarget(target, known) ==
  IF target.kind = "path"
  THEN LET path == Repository(target.path)
           below == WithSubfolders(path, known)
           parent == NearestParent(path, known)
       IN  IF below # {} THEN Roots(below) ELSE IF parent # {} THEN Roots(parent) ELSE Everything
  ELSE LET named == {r \in known : Basename(r) = target.name}
           subs == UNION {WithSubfolders(r, known) : r \in named}
       IN  IF subs # {} THEN Roots(subs) ELSE Everything

(* resolve_project_scope, resolve_scope and _scope: the argument, then the *)
(* client's root, then the header; an empty name stands for none.          *)
None == [kind |-> "none"]

ResolveScope(call, known) ==
  LET target == IF call.arg # None THEN call.arg
                ELSE IF call.client # None THEN call.client ELSE call.header
  IN  IF target.kind = "star" THEN Everything
      ELSE IF target = None THEN [all |-> TRUE, roots |-> {}, unnamed |-> TRUE]
      ELSE ScopeOfTarget(target, known)

(* call_tool: "error" is a refusal; the other answers say what was done.   *)
Answer(call, known) ==
  LET scope == ResolveScope(call, known)
      refused == [does |-> "error", scope |-> Roots({})]
      Read(s) == [does |-> "read", scope |-> s]
  IN  IF ~call.valid THEN refused
      ELSE CASE call.tool = "search_session" ->
                  IF scope.unnamed /\ ~call.session THEN refused ELSE Read(scope)
             [] call.tool \in {"search_all_sessions", "list_sessions", "get_session_stats"} ->
                  IF scope.unnamed THEN refused ELSE Read(scope)
             [] call.tool \in {"get_turns", "get_issue_timeline"} -> Read(Everything)
             [] call.tool = "cleanup_sessions" ->
                  IF call.selectors = {} THEN refused ELSE [does |-> "delete", scope |-> Roots({})]
             [] call.tool = "sanitize_index" ->
                  IF ~call.apply THEN Read(Everything)
                  ELSE IF ~call.confirm THEN refused
                  ELSE [does |-> IF call.drop THEN "delete" ELSE "redact", scope |-> Roots({})]

(* What a tool is called with: up to three targets, and the folders known. *)
Tool == {"search_session", "search_all_sessions", "list_sessions", "get_session_stats",
         "get_turns", "get_issue_timeline", "cleanup_sessions", "sanitize_index"}

Names(target) ==
  \/ target = None \/ target.kind = "star"
  \/ target.kind = "path" /\ target.path \in Seq(STRING)
  \/ target.kind = "name" /\ target.name # NoName

Called(q) ==
  /\ q.known \subseteq Seq(STRING) /\ q.call.tool \in Tool
  /\ Names(q.call.arg) /\ Names(q.call.client) /\ Names(q.call.header)

(* A search reads every project only when it asks for that or names one    *)
(* that has nothing indexed; the roots it reads lie along the path it      *)
(* names or under a folder of that name, none of them is left out, and no  *)
(* call changes rows unless it selects them or confirms                    *)
(* (project_scope.resolve_project_scope, tools.call_tool).                 *)
AnswerSound(call, known, answer) ==
  LET scope == answer.scope
      target == IF call.arg # None THEN call.arg
                ELSE IF call.client # None THEN call.client ELSE call.header
      scoped == call.tool \in {"search_session", "search_all_sessions", "list_sessions",
                               "get_session_stats"}
      path == Repository(target.path)
      along == {r \in known \ {<< >>} : IsPrefix(r, path) \/ IsPrefix(path, r)}
  IN  /\ answer.does = "read" /\ scoped /\ target = None => call.session
      /\ answer.does = "read" /\ scoped /\ target.kind = "path" /\ path # << >> =>
           /\ scope.roots \subseteq along
           /\ scope.all = (along = {})
           /\ \A r \in known : IsPrefix(path, r) => r \in scope.roots
      /\ answer.does = "read" /\ scoped /\ target.kind = "name" =>
           /\ \A r \in scope.roots : \E i \in DOMAIN r : r[i] = target.name
           /\ \A r \in known \ {<< >>} : Basename(r) = target.name => r \in scope.roots
      /\ answer.does \in {"delete", "redact"} =>
           call.selectors # {} \/ (call.apply /\ call.confirm)
=============================================================================
