------------------------------ MODULE Algorithms ------------------------------
(***************************************************************************)
(* The functions that read and repair the index, each computed once on an  *)
(* input and held against what it promises.  A behaviour picks an area and *)
(* an input of it; one step calls the function.                            *)
(***************************************************************************)
EXTENDS TurnSearch, MemorySearch, SessionListing, ToolScope,
        TurnText, TurnRepair, ProviderReading, ProviderDiscovery

CONSTANT Inputs   \* area -> a sequence of sets of inputs to try

ASSUME WeightsAssumption == RecencyWeight \in 0..100 /\ TemporalWeight \in 0..100
ASSUME LimitsAssumption ==
  {MemoryPoolFactor, RerankTop, FtsCap, ScanLimit, TitleTurns, WrappedChunk} \subseteq Nat \ {0}

(* The inputs of an area.                                                  *)
Given(a) == IF a \in DOMAIN Inputs THEN UNION {Inputs[a][i] : i \in DOMAIN Inputs[a]} ELSE {}

ASSUME TextAssumption ==
  /\ \A q \in Given("redact") : SecretsFound(q)
  /\ \A q \in Given("strip") : Sections(q)
  /\ \A q \in Given("passages") : Windows(q)
  /\ \A q \in Given("units") : Units(q)

ASSUME ReadingAssumption ==
  /\ \A q \in Given("reading") : SourceGrows(q)
  /\ \A q \in Given("discovery") : Found(q)

ASSUME RepairAssumption ==
  /\ \A q \in Given("dedupe") : TurnVersions(q)
  /\ \A q \in Given("codex") : CodexRows(q)
  /\ \A q \in Given("retag") : RootsAgree(q)
  /\ \A q \in Given("restamp") : StampsOfDocs(q)

ASSUME MemoryAssumption ==
  /\ Memory \subseteq Nat \ {0} /\ IsFiniteSet(Memory)
  /\ MemoryMoment \in [Memory -> Nat] /\ MemoryRecency \in [Memory -> Nat]

ASSUME RowAssumption == RowMoment \in [Row -> Nat] /\ RowRecency \in [Row -> Nat]

ASSUME SearchAssumption ==
  /\ \A q \in Given("turns") : TurnQuery(q)
  /\ \A q \in Given("memories") : MemoryQuery(q)
  /\ \A q \in Given("pages") : PagesRead(q)
  /\ \A q \in Given("clusters") : q.ids \subseteq Memory

ASSUME ListingAssumption ==
  /\ \A q \in Given("listing") : ListingQuery(q)
  /\ \A q \in Given("timeline") : TimelineQuery(q)
  /\ \A q \in Given("issue") : IssueQuery(q)
  /\ \A q \in Given("sessions") : SessionQuery(q)
  /\ \A q \in Given("window") : WindowQuery(q)
  /\ \A q \in Given("tail") : TailQuery(q)

ASSUME ScopeAssumption == \A q \in Given("answer") : Called(q)

VARIABLES
  area,    \* which function is called
  input,   \* with what
  output   \* << >> before the call, then <<its result>>

vars == <<area, input, output>>

Init ==
  \E a \in DOMAIN Inputs :
    \E i \in DOMAIN Inputs[a] :
      /\ area = a
      /\ input \in Inputs[a][i]
      /\ output = << >>

Call(a, result) ==
  /\ area = a /\ output = << >>
  /\ output' = <<result>>
  /\ UNCHANGED <<area, input>>

(* The command is run again, and nothing fails.                            *)
Clean(run) == [run EXCEPT !.fails = {}, !.gone = {}, !.lost = {}]

RetagOnce == RetagProject(input.stores, input.from, input.to, input.run)
RestampOnce == Restamp(input.stores, input.wanted, input.run)

Next ==
  \/ Call("turns", SearchTurns(input))
  \/ Call("memories", SearchMemories(input))
  \/ Call("pages", Pages(input.lives, input.limit))
  \/ Call("clusters", Clusters(input.near, input.ids))
  \/ Call("listing", RecentListing(input.scan, input.fetch, input.filter, input.n))
  \/ Call("timeline", Timeline(input))
  \/ Call("issue", SessionsByIssue(input))
  \/ Call("sessions", ListSessions(input))
  \/ Call("window", TurnsOrError(input))
  \/ Call("tail", SessionTurns(input))
  \/ Call("answer", Answer(input.call, input.known))
  \/ Call("reading", ReadSource(input.provider, input.visits))
  \/ Call("discovery", Discover(input))
  \/ Call("redact", Redact(input.text, input.found))
  \/ Call("strip", Strip(input))
  \/ Call("passages", PassagesOf(input))
  \/ Call("units", StoredUnits(input))
  \/ Call("dedupe",
       DedupeTurns(input.stores, input.transcript, input.run))
  \/ Call("codex",
       DedupeCodex(input.stores, input.rollout, input.run))
  \/ Call("retag",
       <<RetagOnce, RetagProject(RetagOnce, input.from, input.to, Clean(input.run))>>)
  \/ Call("restamp",
       <<RestampOnce, Restamp(RestampOnce, input.wanted, Clean(input.run))>>)

Spec == Init /\ [][Next]_vars

-----------------------------------------------------------------------------
Computed(a) == area = a /\ output # << >>

(* A page of results leaves out nothing better than what it shows, and     *)
(* shows nothing twice or stale (rag_engine.search, MemoryService.search). *)
FoundSound ==
  /\ Computed("turns") => TurnPageSound(input, output[1])
  /\ Computed("memories") => MemoryPageSound(input, output[1])

(* Reading a listing page by page misses nothing that was there all the    *)
(* time, whatever is added and deleted meanwhile (MemoryStore.list).       *)
PagingSound ==
  Computed("pages") => PagesComplete(input.lives, input.limit, output[1])

(* The audit joins what is near, over any chain, and nothing else          *)
(* (MemoryService.audit).                                                  *)
ClustersSound ==
  Computed("clusters") => ClustersConnected(input.near, input.ids, output[1])

(* A tool call reads the projects it names, all of them and no other, and  *)
(* changes rows only when it was asked to (resolve_project_scope,          *)
(* call_tool).                                                             *)
ScopeSound ==
  Computed("answer") => AnswerSound(input.call, input.known, output[1])

(* What a search, an audit and a page answer is right: the rows, and the   *)
(* projects they are taken from.                                           *)
SearchSound == FoundSound /\ PagingSound /\ ClustersSound /\ ScopeSound

(* Listings made of scans, of two indexes and of pages are what one look   *)
(* at all rows would give (rag_engine listings, session_listing).          *)
ListingSound ==
  /\ Computed("listing") => ListingExact(input, output[1])
  /\ Computed("timeline") => TimelineExact(input, output[1])
  /\ Computed("issue") => SessionsExact(input, output[1])
  /\ Computed("sessions") => SessionPageExact(input, output[1])
  /\ Computed("window") => WindowExact(input, output[1])
  /\ Computed("tail") => TailExact(input, output[1])

(* What is stored of a source does not depend on when it was visited while *)
(* it grew, and each session is found once with its own root (the          *)
(* adapters' discover_sources and parse_source).                           *)
ReadingSound ==
  /\ Computed("reading") => ReadingExact(input, output[1])
  /\ Computed("discovery") => DiscoverySound(input, output[1])

(* Of a stored turn nothing is readable that was to be masked, nothing is  *)
(* missing that was said, and each part is findable (secret_redaction,     *)
(* boilerplate, passages, add_turns).                                      *)
TextSound ==
  /\ Computed("redact") => RedactionSound(input, output[1])
  /\ Computed("strip") => StripSound(input, output[1])
  /\ Computed("passages") => PassagesSound(input, output[1])
  /\ Computed("units") => UnitsSound(input, output[1])

(* A repair loses no turn, whatever fails in it, and the run after a clean *)
(* one has nothing left to do (dedupe_turns, dedupe_codex, cleanup).       *)
RepairSound ==
  /\ Computed("dedupe") => DedupeTurnsSound(input, output[1])
  /\ Computed("codex") => DedupeCodexSound(input, output[1])
  /\ Computed("retag") => RetagSound(input, output[1][1], output[1][2])
  /\ Computed("restamp") => RestampSound(input, output[1][1], output[1][2])
=============================================================================
