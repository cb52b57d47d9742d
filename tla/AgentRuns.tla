----------------------------- MODULE AgentRuns ------------------------------
(***************************************************************************)
(* The two agents and whoever watches them.  A research run                *)
(* (retrieval/loop.py) is detached from the request that starts it: it     *)
(* tells its events to a record of the registry in web/api.py, and a chat  *)
(* page tails the record, leaves and comes back.  A browse run             *)
(* (exploration/loop.py) lives in the response that streams it and ends    *)
(* with it.                                                                *)
(*                                                                         *)
(* Every question has a tab of its own.  A response of the model with      *)
(* several tool uses counts as several rounds; the events that only trace  *)
(* what the agent does, and the answer before `done`, go with those that   *)
(* follow them.  A page takes an event as the server sends it.             *)
(***************************************************************************)
EXTENDS Naturals, Sequences, SequencesExt, FiniteSets

CONSTANTS
  Agents,       \* a question or an interest, and the run it starts
  Old,          \* the finished runs that the registry holds already
  Chunks,       \* the passages of the library
  Rankings,     \* bound, by agent: what db.search returns to it, as sequences
                \* of chunks
  Files,        \* what Drive holds
  Finds,        \* what looking at Drive returns: sets of files
  Rounds,       \* bound, by agent: rounds of its loop
  MaxSearches,  \* MAX_SEARCHES
  Keep,         \* _RESEARCH_KEEP
  Roamers,      \* bound: those whose tab is left, cut off or cleared
  Browsers,     \* those that may browse Drive
  MaxRestarts,  \* bound: restarts of the server
  NoOne

ASSUME AgentAssumption ==
  /\ Old \in Seq(Range(Old))
  /\ IsInjective(Old)
  /\ Agents \cap Range(Old) = {}
  /\ NoOne \notin Agents \cup Range(Old)
  /\ \A a \in Agents : \A rows \in Rankings[a] : rows \in Seq(Chunks)
  /\ Finds \subseteq SUBSET Files
  /\ Rounds \in [Agents -> Nat \ {0}]
  /\ {MaxSearches, Keep, MaxRestarts} \subseteq Nat

VARIABLES
  run,          \* by agent: its loop
  told,         \* by agent: the events it yielded
  registry,     \* the keys of _research_runs, in their order
  post,         \* by agent: the thread that serves its POST
  turn,         \* by agent: the turn that the page keeps of it
  restarts

avars == <<run, told, registry, post, turn, restarts>>

Working == {"ask", "close"}

Event(type, of) == [type |-> type, of |-> of]

Idle == [kind |-> "none", at |-> "off", round |-> 1, searches |-> 0,
         sources |-> <<>>, seen |-> {}, cards |-> {}, broken |-> FALSE]

NoTurn == [at |-> "none", status |-> "none", known |-> FALSE,
           heard |-> <<>>, pos |-> 0, saw |-> FALSE]

(* The page keeps what it heard and how it ended; a stream has its own pos *)
(* and whether it carried `done`.                                          *)
Unread(t, at) == [t EXCEPT !.at = at, !.pos = 0, !.saw = FALSE]
SettledInPlace(t, status) == [t EXCEPT !.status = status]
Settled(t, status) == [Unread(t, "settled") EXCEPT !.status = status]

AgentsOK ==
  /\ \A a \in Agents :
       /\ run[a].at \in {"off", "ask", "close", "over", "cut", "lost"}
       /\ run[a].round \in 1..Rounds[a]
       /\ run[a].searches <= MaxSearches
       /\ turn[a].at \in {"none", "waiting", "attaching", "streaming", "away",
                          "settled", "gone"}
       /\ turn[a].at \in {"waiting", "attaching", "streaming", "away"}
            => turn[a].status = "running"
       /\ turn[a].pos <= Len(told[a])
       /\ post[a].at \in {"off", "prune", "drop", "insert"}
  /\ IsInjective(registry)
  /\ restarts \in 0..MaxRestarts

Init ==
  /\ run = [a \in Agents |-> Idle]
  /\ told = [a \in Agents |-> <<>>]
  /\ registry = Old
  /\ post = [a \in Agents |-> [at |-> "off", stale |-> NoOne]]
  /\ turn = [a \in Agents |-> NoTurn]
  /\ restarts = 0

-----------------------------------------------------------------------------
(* The loops.                                                              *)

(* The run is to be marked as over; its session goes with the loop. *)
Ended(r) == [Idle EXCEPT !.kind = r.kind, !.at = "close"]

(* One round: the events it yields, and the end when it was the last one.  *)
Round(a, r, events, last) ==
  LET spent == r.round = Rounds[a] IN
  /\ told' = [told EXCEPT ![a] = @ \o events \o
                IF spent THEN <<last>> ELSE <<>>]
  /\ run' = [run EXCEPT ![a] =
                IF spent THEN Ended(r)
                         ELSE [r EXCEPT !.round = @ + 1]]

Done(r) == Event("done", IF r.kind = "browse" THEN r.cards ELSE r.sources)

Answer(a) ==
  /\ told' = [told EXCEPT ![a] = @ \o <<Done(run[a])>>]
  /\ run' = [run EXCEPT ![a] = Ended(@)]

FailAndRetry(a) ==
  /\ run' = [run EXCEPT ![a] = [Idle EXCEPT !.kind = run[a].kind, !.at = "ask"]]
  /\ UNCHANGED told

(* An exception leaves the loop, the model's API or no connection: the     *)
(* error is the last event, and the run is over whatever happened.         *)
Fail(a) ==
  /\ told' = [told EXCEPT ![a] = Append(@, Event("error", {}))]
  /\ run' = [run EXCEPT ![a] = Ended(@)]

(* Session.search: a chunk keeps the number of its first appearance. *)
Sources(r, rows) ==
  LET upTo[n \in 0..Len(rows)] ==
        IF n = 0 THEN r.sources
        ELSE IF rows[n] \in Range(upTo[n - 1]) THEN upTo[n - 1]
        ELSE Append(upTo[n - 1], rows[n])
  IN  upTo[Len(rows)]

NumberedAfresh(sources, rows) == { <<n, rows[n]>> : n \in DOMAIN rows }

Numbered(sources, rows) ==
  { <<n, sources[n]>> : n \in { m \in DOMAIN sources : sources[m] \in Range(rows) } }

Budgeted(r) == r.searches < MaxSearches

SearchLibrary(a) ==
  /\ run[a].kind = "research"
  /\ \/ /\ Budgeted(run[a])
        /\ \E rows \in Rankings[a] :
             LET r == [run[a] EXCEPT !.searches = @ + 1, !.sources = Sources(run[a], rows)]
             IN  Round(a, r, <<Event("results", Numbered(r.sources, rows))>>, Done(r))
     \/ /\ ~ Budgeted(run[a])
        /\ Round(a, run[a], <<Event("results", {})>>, Done(run[a]))
     \/ Fail(a)      \* the embedding or the query raises

ListBooks(a) ==
  /\ run[a].kind = "research"
  /\ Round(a, run[a], <<>>, Done(run[a]))

(* A tool of the browsing agent raises, and the model is told.  When it    *)
(* was the database, the connection's transaction stays aborted, and every *)
(* later tool that reads the database raises too.                          *)
ToolRaises(a) ==
  /\ run[a].kind = "browse"
  /\ \E broken \in {run[a].broken, TRUE} :
       Round(a, [run[a] EXCEPT !.broken = broken],
             <<Event("tool_error", {})>>, Done(run[a]))

(* _remember: what a tool returned may be recommended. *)
RememberLast(r, found) == [r EXCEPT !.seen = found]
Remember(r, found) == [r EXCEPT !.seen = @ \cup found]

LookAtDrive(a) ==
  /\ run[a].kind = "browse"
  /\ ~ run[a].broken
  /\ \E found \in Finds :
       Round(a, Remember(run[a], found), <<Event("results", found)>>, Done(run[a]))

Recommend(a) ==
  /\ run[a].kind = "browse"
  /\ ~ run[a].broken
  /\ \E picks \in SUBSET Files :
       LET cards == { [file |-> f, unknown |-> f \notin run[a].seen] : f \in picks }
           r == [run[a] EXCEPT !.cards = cards]
       IN  Round(a, r, <<Event("recommendations", cards)>>,
                 Done(r))

Loop(a) ==
  /\ run[a].at = "ask"
  /\ \/ Answer(a)
     \/ Fail(a)      \* the model's API raises
     \/ SearchLibrary(a)
     \/ ListBooks(a)
     \/ ToolRaises(a)
     \/ LookAtDrive(a)
     \/ Recommend(a)
  /\ UNCHANGED <<registry, post, turn, restarts>>

(* The finally of _run_research, or the end of the response. *)
Close(a) ==
  /\ run[a].at = "close"
  /\ run' = [run EXCEPT ![a].at = "over"]
  /\ turn' = IF run[a].kind = "browse"
             THEN [turn EXCEPT ![a] = Settled(@, IF Last(told[a]).type = "done"
                                                 THEN "done" ELSE "failed")]
             ELSE turn
  /\ UNCHANGED <<told, registry, post, restarts>>

-----------------------------------------------------------------------------
(* POST /api/research: each request on a thread of its own.                *)

Finished(k) == k \notin Agents \/ run[k].at = "over"

StaleOldest == Head(registry)
Stale == LET first == SelectInSeq(registry, Finished)
         IN  IF first = 0 THEN NoOne ELSE registry[first]

PruneLook(a) ==
  /\ post[a].at = "prune"
  /\ post' = [post EXCEPT ![a] =
       IF Len(registry) >= Keep /\ Stale # NoOne
       THEN [at |-> "drop", stale |-> Stale]
       ELSE [at |-> "insert", stale |-> NoOne]]
  /\ UNCHANGED <<run, told, registry, turn, restarts>>

(* The page gives the question up: no answer to its POST, or a bad one. *)
StartFailed(a) ==
  IF turn[a].at = "waiting"
  THEN [turn EXCEPT ![a] = Settled(@, "failed")]
  ELSE turn

(* Another request may have dropped the same run: the del raises. *)
PruneDrop(a) ==
  /\ post[a].at = "drop"
  /\ \/ /\ Contains(registry, post[a].stale)
        /\ registry' = RemoveFirst(registry, post[a].stale)
        /\ post' = [post EXCEPT ![a] = [at |-> "prune", stale |-> NoOne]]
        /\ UNCHANGED turn
     \/ /\ ~ Contains(registry, post[a].stale)
        /\ post' = [post EXCEPT ![a] = [at |-> "off", stale |-> NoOne]]
        /\ turn' = StartFailed(a)
        /\ UNCHANGED registry
  /\ UNCHANGED <<run, told, restarts>>

Register(a) ==
  /\ post[a].at = "insert"
  /\ registry' = Append(registry, a)
  /\ run' = [run EXCEPT ![a] = [Idle EXCEPT !.kind = "research", !.at = "ask"]]
  /\ post' = [post EXCEPT ![a].at = "off"]
  /\ turn' = IF turn[a].at = "waiting"
             THEN [turn EXCEPT ![a].at = "attaching", ![a].known = TRUE]
             ELSE turn
  /\ UNCHANGED <<told, restarts>>

-----------------------------------------------------------------------------
(* The chat page, and the reader that it tails a record with.              *)

AskResearch(a) ==
  /\ turn[a].at = "none"
  /\ turn' = [turn EXCEPT ![a] = [NoTurn EXCEPT !.at = "waiting", !.status = "running"]]
  /\ post' = [post EXCEPT ![a].at = "prune"]
  /\ UNCHANGED <<run, told, registry, restarts>>

AskBrowse(a) ==
  /\ a \in Browsers
  /\ turn[a].at = "none"
  /\ turn' = [turn EXCEPT ![a] = [NoTurn EXCEPT !.at = "streaming", !.status = "running"]]
  /\ run' = [run EXCEPT ![a] = [Idle EXCEPT !.kind = "browse", !.at = "ask"]]
  /\ UNCHANGED <<told, registry, post, restarts>>

(* The page waits twenty seconds for its POST; the server goes on. *)
GiveUpWaiting(a) ==
  /\ turn[a].at = "waiting"
  /\ turn' = StartFailed(a)
  /\ UNCHANGED <<run, told, registry, post, restarts>>

FromStart(t) == 0
From(t) == Len(t.heard)     \* after=turn.events.length

Attach(a) ==
  /\ turn[a].at = "attaching"
  /\ turn' = [turn EXCEPT ![a] =
       IF Contains(registry, a)
       THEN [@ EXCEPT !.at = "streaming", !.pos = From(turn[a]), !.saw = FALSE]
       ELSE Settled(@, "failed")]
  /\ UNCHANGED <<run, told, registry, post, restarts>>

Tailing(a) == turn[a].at = "streaming" /\ run[a].kind = "research"

Hear(a) ==
  /\ Tailing(a)
  /\ turn[a].pos < Len(told[a])
  /\ LET e == told[a][turn[a].pos + 1]
         t == [turn[a] EXCEPT !.heard = Append(@, e), !.pos = @ + 1,
                              !.saw = @ \/ e.type = "done"]
     IN  turn' = [turn EXCEPT ![a] = IF e.type = "error" THEN Settled(t, "failed") ELSE t]
  /\ UNCHANGED <<run, told, registry, post, restarts>>

(* The reader stops when the run is done and drained, both. *)
DrainedPastEnd(a) == run[a].at = "over" /\ turn[a].pos > Len(told[a])
Drained(a) == run[a].at = "over" /\ turn[a].pos >= Len(told[a])

(* A stream that ends without having carried `done` is a failure. *)
Ending(t) == IF t.saw THEN "done" ELSE "failed"

EndStream(a) ==
  /\ Tailing(a)
  /\ Drained(a)
  /\ turn' = [turn EXCEPT ![a] = Settled(@, Ending(@))]
  /\ UNCHANGED <<run, told, registry, post, restarts>>

DropConnection(a) ==
  /\ Tailing(a)
  /\ turn' = [turn EXCEPT ![a] = Settled(@, "failed")]
  /\ UNCHANGED <<run, told, registry, post, restarts>>

(* Leaving the page stops a browse run at its next event; a research run   *)
(* goes on.                                                                *)
Leave(a) ==
  /\ \/ /\ turn[a].at \in {"waiting", "attaching", "streaming"}
        /\ run[a].kind # "browse"
        /\ turn' = [turn EXCEPT ![a] = Unread(@, "away")]
        /\ UNCHANGED run
     \/ /\ run[a].kind = "browse"
        /\ run[a].at \in Working
        /\ turn' = [turn EXCEPT ![a] = [NoTurn EXCEPT !.at = "gone", !.status = "gone"]]
        /\ run' = [run EXCEPT ![a] = [Ended(@) EXCEPT !.at = "cut"]]
  /\ UNCHANGED <<told, registry, post, restarts>>

(* The page is loaded again and takes up the turns that were running. *)
Return(a) ==
  /\ turn[a].at = "away"
  /\ turn' = [turn EXCEPT ![a] =
       IF @.known THEN [@ EXCEPT !.at = "attaching"]
                  ELSE Settled(@, "failed")]
  /\ UNCHANGED <<run, told, registry, post, restarts>>

NewChat(a) ==
  /\ turn[a].at \in {"waiting", "attaching", "streaming"}
  /\ run[a].kind # "browse"
  /\ turn' = [turn EXCEPT ![a] = [NoTurn EXCEPT !.at = "gone", !.status = "gone"]]
  /\ UNCHANGED <<run, told, registry, post, restarts>>

(* Everything the server keeps of runs is in memory. *)
Restart ==
  /\ restarts < MaxRestarts
  /\ restarts' = restarts + 1
  /\ registry' = <<>>
  /\ post' = [a \in Agents |-> [at |-> "off", stale |-> NoOne]]
  /\ run' = [a \in Agents |->
       IF run[a].at \in Working THEN [Ended(run[a]) EXCEPT !.at = "lost"] ELSE run[a]]
  /\ turn' = [a \in Agents |->
       IF turn[a].at \in {"waiting", "streaming"}
       THEN Settled(turn[a], "failed")
       ELSE turn[a]]
  /\ UNCHANGED told

-----------------------------------------------------------------------------
Serve(a) == PruneLook(a) \/ PruneDrop(a) \/ Register(a)
Follow(a) == Attach(a) \/ Hear(a) \/ EndStream(a)
Page(a)  == \/ AskResearch(a) \/ AskBrowse(a)
            \/ a \in Roamers /\ (\/ GiveUpWaiting(a) \/ DropConnection(a)
                                \/ Leave(a) \/ Return(a) \/ NewChat(a))

Next ==
  \/ \E a \in Agents : Loop(a) \/ Close(a) \/ Serve(a) \/ Follow(a) \/ Page(a)
  \/ Restart

(* The threads of the server run; the model answers or its API raises; an  *)
(* open page reads its stream.  Nobody has to ask, leave or come back.     *)
AgentSpec ==
  /\ Init
  /\ [][Next]_avars
  /\ \A a \in Agents : /\ WF_avars(Loop(a))
                       /\ WF_avars(Close(a))
                       /\ WF_avars(Serve(a))
                       /\ WF_avars(Follow(a))
-----------------------------------------------------------------------------
(* Properties.                                                             *)

Citations(a) == UNION { told[a][i].of : i \in { j \in DOMAIN told[a] :
                                              told[a][j].type = "results" } }

(* One number names one passage and one passage has one number, in every   *)
(* result the reader was shown and in the sources that the answer's [n]    *)
(* are looked up in, although each search ranks the passages afresh.       *)
CitationsAgree ==
  \A a \in Agents : run[a].kind = "research" =>
    \A i \in DOMAIN told[a] : told[a][i].type = "done" =>
      /\ IsInjective(told[a][i].of)
      /\ Citations(a) = { <<n, told[a][i].of[n]>> : n \in DOMAIN told[a][i].of }

Shown(a, i) == UNION { told[a][j].of : j \in { k \in 1..i : told[a][k].type = "results" } }

(* A card is flagged as unknown exactly when no tool had returned its file *)
(* to this run by then, and the shortlist the run closes with is the last  *)
(* one it recommended.                                                     *)
CardsResolved ==
  \A a \in Agents : run[a].kind = "browse" =>
    \A i \in DOMAIN told[a] :
      /\ told[a][i].type = "recommendations" =>
           \A card \in told[a][i].of : card.unknown <=> card.file \notin Shown(a, i)
      /\ told[a][i].type = "done" =>
           LET lists == { j \in 1..i : told[a][j].type = "recommendations" }
           IN  IF lists = {} THEN told[a][i].of = {}
               ELSE \E j \in lists : /\ \A k \in lists : k <= j
                                     /\ told[a][i].of = told[a][j].of

(* However many requests prune the registry at once, a run in flight keeps *)
(* its record there, so that a page can come back to it.                   *)
InFlightReachable ==
  \A a \in Agents :
    run[a].kind = "research" /\ run[a].at \in Working => Contains(registry, a)

Research(a) == run[a].kind # "browse"

(* The chat page hears its run as Feed promises: in order, each event once *)
(* across every departure and return, and `done` only for the whole of it. *)
Asker == INSTANCE Feed WITH
  Askers   <- Agents,
  told     <- [a \in Agents |-> IF Research(a) THEN told[a] ELSE <<>>],
  heard    <- [a \in Agents |-> turn[a].heard],
  standing <- [a \in Agents |-> IF Research(a) THEN turn[a].status ELSE "none"]

PageIsFed == Asker!FeedSpec

(* Every run ends: by an answer, by running out of rounds, by an error, or *)
(* because its watcher or its server went away.                            *)
AgentsEnd == \A a \in Agents : run[a].at \in Working ~> run[a].at \notin Working

(* A turn that is looked at does not stay "running" for ever: the page     *)
(* gets its answer or says that it failed.                                 *)
TurnsSettle ==
  \A a \in Agents : turn[a].status = "running" ~>
    (turn[a].status # "running" \/ turn[a].at = "away")
=============================================================================
