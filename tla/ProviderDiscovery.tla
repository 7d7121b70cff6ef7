-------------------------- MODULE ProviderDiscovery --------------------------
(***************************************************************************)
(* The sources that the adapters list, and the project root of each: from  *)
(* the history and the summaries of Antigravity, from the metadata of a    *)
(* Cowork session, from the rollouts of Codex and from the database and    *)
(* the older files of OpenCode.  A path is a sequence of folders, and      *)
(* Unknown stands for none.                                                *)
(***************************************************************************)
EXTENDS Integers, Sequences, SequencesExt, FiniteSets, FiniteSetsExt

Unknown == <<"unknown">>

(* A record that is malformed, or lacks its id or its URI, is dropped      *)
(* (_walk_length_delimited, _decode_record).                               *)
Decodes(r) == ~r.bad /\ r.id # 0 /\ r.uri # "absent"

(* The last record of a conversation counts.                               *)
LastOn(hits) == IF hits = {} THEN 0 ELSE Max(hits)

(* Mutant: one malformed record drops the file.                            *)
SummariesWhole(file, id) ==
  LET k == LastOn({i \in DOMAIN file.records : Decodes(file.records[i]) /\ file.records[i].id = id})
  IN  IF ~file.whole \/ k = 0 \/ \E r \in ToSet(file.records) : r.bad THEN Unknown
      ELSE IF file.records[k].uri = "relative" THEN Unknown ELSE file.records[k].path

(* _load_summaries: a frame cut short drops the file.  A URI that is no    *)
(* absolute path is dropped once the records are read.                     *)
Summaries(file, id) ==
  LET k == LastOn({i \in DOMAIN file.records : Decodes(file.records[i]) /\ file.records[i].id = id})
  IN  IF ~file.whole \/ k = 0 THEN Unknown
      ELSE IF file.records[k].uri = "relative" THEN Unknown ELSE file.records[k].path

(* _load_history: lines that are no JSON, and those without both, are      *)
(* skipped.                                                                *)
History(lines, id) ==
  LET k == LastOn({i \in DOMAIN lines : ~lines[i].bad /\ lines[i].id = id /\ lines[i].path # << >>})
  IN  IF k = 0 THEN Unknown ELSE lines[k].path

AntigravityRoot(q) ==
  IF History(q.history, q.id) # Unknown THEN History(q.history, q.id)
  ELSE IF q.desktop THEN Summaries(q.summaries, q.id) ELSE Unknown

(* What else the files hold changes nothing: without a record that cannot  *)
(* be read, or is of another conversation, the root is the same.           *)
AntigravityRootSound(q, root) ==
  LET Else(list) == {i \in DOMAIN list : list[i].bad \/ list[i].id # q.id}
  IN  /\ \A i \in Else(q.history) :
           root = AntigravityRoot([q EXCEPT !.history = RemoveAt(@, i)])
      /\ \A i \in Else(q.summaries.records) :
           root = AntigravityRoot([q EXCEPT !.summaries.records = RemoveAt(@, i)])

-----------------------------------------------------------------------------
(* parse_project_path_map and remap_project_root: of the pairs [old, new], *)
(* without those that lack an absolute path (<< >>), the longest prefix    *)
(* counts, and of several the first.                                       *)
PathMap(pairs) == {i \in DOMAIN pairs : pairs[i].old # << >> /\ pairs[i].new # << >>}

Remapped(root, pairs) ==
  LET fits == {i \in PathMap(pairs) : IsPrefix(pairs[i].old, root)}
      k == CHOOSE i \in fits : \A j \in fits :
             \/ Len(pairs[j].old) < Len(pairs[i].old)
             \/ Len(pairs[j].old) = Len(pairs[i].old) /\ i <= j
  IN  IF root = Unknown \/ fits = {} THEN root
      ELSE pairs[k].new \o SubSeq(root, Len(pairs[k].old) + 1, Len(root))

(* _is_sandbox_path: below /sessions, or below the adapter's own root.     *)
InSandbox(q, path) == IsPrefix(<<"sessions">>, path) \/ IsPrefix(q.own, path)

(* _project_root_from_metadata: the first folder selected that is not      *)
(* blank, then an absolute cwd outside the sandbox.                        *)
CoworkRoot(q) ==
  LET chosen == {i \in DOMAIN q.folders : q.folders[i] # << >>}
  IN  IF ~q.readable THEN Unknown
      ELSE IF chosen # {} THEN q.folders[Min(chosen)]
      ELSE IF q.absolute /\ ~InSandbox(q, q.cwd) THEN q.cwd
      ELSE Unknown

CoworkSource(q) == Remapped(CoworkRoot(q), q.map)

(* The most specific of the folders that moved decides, whatever order     *)
(* they are given in, and a cwd inside the sandbox is never the root.      *)
CoworkRootSound(q, root) ==
  LET from == CoworkRoot(q)
      moves == {p \in ToSet(q.map) : p.old # << >> /\ p.new # << >> /\ IsPrefix(p.old, from)}
  IN  /\ ~q.readable => root = Unknown
      /\ from # Unknown /\ moves # {} =>
           \E p \in moves : /\ \A o \in moves : Len(o.old) <= Len(p.old)
                            /\ IsPrefix(p.new, root)
                            /\ Len(root) = Len(from) - Len(p.old) + Len(p.new)
      /\ moves = {} => root = from
      /\ moves = {} /\ (\A f \in ToSet(q.folders) : f = << >>) =>
           root = Unknown \/ (q.absolute /\ ~InSandbox(q, root))

-----------------------------------------------------------------------------
(* Codex: a rollout is [name, archived, packed, session, root]; names are  *)
(* in the order of their paths.  A packed copy beside a plain one of the   *)
(* same name is older, and is left out.                                    *)
RolloutPaths(files, unpacks) ==
  {f \in files : f.packed => unpacks /\ ~\E g \in files :
     ~g.packed /\ g.name = f.name /\ g.archived = f.archived}

BeforeOf(f, g) ==
  \/ f.archived /\ ~g.archived
  \/ f.archived = g.archived /\ f.name < g.name
  \/ f.archived = g.archived /\ f.name = g.name /\ ~f.packed /\ g.packed

(* discover_sources: one source per session, with the root that its first  *)
(* rollout names.                                                          *)
CodexSources(q) ==
  LET found == RolloutPaths(q.files, q.unpacks)
      Of(s) == {f \in found : f.session = s}
      First(s) == CHOOSE f \in Of(s) : \A g \in Of(s) \ {f} : BeforeOf(f, g)
  IN  {[session |-> s, root |-> First(s).root, copies |-> Of(s)] : s \in {f.session : f \in found}}

(* Every session that a readable rollout names is listed once, with each   *)
(* of its rollouts under some copy.                                        *)
CodexSourcesSound(q, sources) ==
  LET readable == {f \in q.files : q.unpacks \/ ~f.packed}
  IN  /\ \A s, t \in sources : s.session = t.session => s = t
      /\ \A f \in readable : \E s \in sources : \E c \in s.copies :
           c.name = f.name /\ c.archived = f.archived /\ (c.packed => f.packed)
      /\ \A s \in sources : \A c, d \in s.copies :
           c.name = d.name /\ c.archived = d.archived => c = d

(* OpenCode: the sessions of the database, then the files of older         *)
(* installs whose session is not listed yet.                               *)
Listed(q) ==
  LET at[i \in 0..Len(q.legacy)] ==
        IF i = 0 THEN q.db
        ELSE IF \E s \in ToSet(at[i - 1]) : s.session = q.legacy[i] THEN at[i - 1]
        ELSE Append(at[i - 1], [session |-> q.legacy[i], at |-> i])
  IN  at

OpenCodeSources(q) == Listed(q)[Len(q.legacy)]

OpenCodeSourcesSound(q, sources) ==
  /\ {s.session : s \in ToSet(sources)} = {s.session : s \in ToSet(q.db)} \cup ToSet(q.legacy)
  /\ \A i, j \in DOMAIN sources : i # j => sources[i].session # sources[j].session
  /\ \A s \in ToSet(q.db) : s \in ToSet(sources)

Discover(q) ==
  CASE q.of = "antigravity" -> AntigravityRoot(q)
    [] q.of = "cowork" -> CoworkSource(q)
    [] q.of = "codex" -> CodexSources(q)
    [] q.of = "opencode" -> OpenCodeSources(q)

DiscoverySound(q, out) ==
  CASE q.of = "antigravity" -> AntigravityRootSound(q, out)
    [] q.of = "cowork" -> CoworkRootSound(q, out)
    [] q.of = "codex" -> CodexSourcesSound(q, out)
    [] q.of = "opencode" -> OpenCodeSourcesSound(q, out)

(* What an adapter finds: records with an id, paths of folders, a rollout  *)
(* to a path, and a row to a session.                                      *)
Found(q) ==
  \/ q \in [of : {"antigravity"}, id : Nat, desktop : BOOLEAN,
            history : Seq([id : Nat, path : Seq(STRING), bad : BOOLEAN]),
            summaries : [whole : BOOLEAN,
                         records : Seq([id : Nat, uri : {"file", "relative", "absent"},
                                        path : Seq(STRING), bad : BOOLEAN])]]
  \/ q \in [of : {"cowork"}, readable : BOOLEAN, folders : Seq(Seq(STRING)), cwd : Seq(STRING),
            absolute : BOOLEAN, own : Seq(STRING), map : Seq([old : Seq(STRING), new : Seq(STRING)])]
  \/ /\ q.of = "codex"
     /\ \A f \in q.files : f.packed \in BOOLEAN
     /\ \A f, g \in q.files :
          f.name = g.name /\ f.archived = g.archived /\ f.packed = g.packed => f = g
  \/ /\ q.of = "opencode" /\ q.legacy \in Seq(Nat) /\ q.db \in Seq([session : Nat, at : Nat])
     /\ \A i, j \in DOMAIN q.db : i # j => q.db[i].session # q.db[j].session
=============================================================================
