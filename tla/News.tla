-------------------------------- MODULE News --------------------------------
(***************************************************************************)
(* News from the feed to a score: the news table of the store, and the     *)
(* ingest that fills it (ghambla.news_live, ghambla.store); the classifier *)
(* with its cache file, and the signal that asks it about each recent item *)
(* (ghambla.signals.news).  One process scores at a time.  Time is counted *)
(* in days; the verdict of a model on a text is anything, each time.       *)
(***************************************************************************)
EXTENDS Integers, FiniteSets, FiniteSetsExt, Functions

CONSTANTS Symbols, Texts,
          Lookback,         \* LOOKBACK_ITEMS
          MaxNewsAge,       \* MAX_NEWS_AGE_DAYS
          FeedAge,          \* days the feed reaches back (max_age_hours)
          Verdicts,         \* what a classifier may answer: [direction, confidence]
          LastDay, MaxItems, \* bounds: days of a behaviour, items in the table
          Torn, Down        \* a file cut short; no process

ASSUME NewsConstants ==
  /\ Symbols \subseteq Nat
  /\ Lookback \in Nat /\ MaxNewsAge \in Nat /\ FeedAge \in Nat
  /\ LastDay \in Nat /\ MaxItems \in Nat

\* A file cut short and no process are told from a cache.
ASSUME MarkersAreNoCaches ==
  \A T \in SUBSET Texts : Torn \notin [T -> Verdicts] /\ Down \notin [T -> Verdicts]

VARIABLES now,
          news,     \* the table, keyed by symbol, day and text
          disk,     \* the cache file: verdicts by text, or Torn
          memory,   \* the cache of the running process, or Down
          task      \* the scoring under way, or Idle

\* History, which the code does not keep.
VARIABLES told,     \* the last scores told, while the file has held what they rest on
          unsaved   \* texts whose save raised and that no save has taken along since

historyVars == <<told, unsaved>>
vars == <<now, news, disk, memory, task, historyVars>>

Idle == [task |-> "idle"]
Nothing == [told |-> "nothing"]

Empty == [t \in {} |-> 0]

Init == now = 1 /\ news = {} /\ disk = Empty /\ memory = Down /\ task = Idle
        /\ told = Nothing /\ unsaved = {}

-----------------------------------------------------------------------------
(* The table.                                                              *)

\* A bug: whatever the feed still lists is stored, however old.
PublishedEver == [symbol : Symbols, day : 0..now, text : Texts]

\* parse_yahoo_news leaves out what is too old, and dates the rest.
Published == [symbol : Symbols, day : (now - FeedAge)..now, text : Texts]

\* Each symbol's fetch may fail, or find any of it; what is there already is
\* written over with itself.
IngestNews ==
  \E items \in {x \in SUBSET Published : Cardinality(x) \in 1..2} :
    /\ Cardinality(news \cup items) <= MaxItems
    /\ news' = news \cup items
    /\ UNCHANGED <<now, disk, memory, task, historyVars>>

NewDay == /\ now < LastDay
          /\ now' = now + 1
          /\ UNCHANGED <<news, disk, memory, task, historyVars>>

Knowable(asOf) == {item \in news : item.day <= asOf}

\* What news_as_of may return: the limit is on the rows of all symbols
\* together, and SQL leaves open which of equally old rows it cuts.
NewsAsOf(asOf) ==
  LET all == Knowable(asOf)
      limit == Lookback * Cardinality(Symbols)
  IN  {x \in SUBSET all : /\ Cardinality(x) = Min({limit, Cardinality(all)})
                          /\ \A in \in x, out \in all \ x : in.day >= out.day}

-----------------------------------------------------------------------------
(* The classifier behind its cache, and the signal.                        *)

\* CachedClassifier.__init__: a file that does not decode is an empty cache.
Start == /\ memory = Down
         /\ memory' = IF disk = Torn THEN Empty ELSE disk
         /\ UNCHANGED <<now, news, disk, task, historyVars>>

Recent(items, asOf) == {item \in items : asOf - item.day <= MaxNewsAge}

StartScore ==
  /\ memory # Down /\ task = Idle
  /\ \E asOf \in 1..now : \E items \in NewsAsOf(asOf) :
       task' = [asOf |-> asOf, items |-> items, todo |-> Recent(items, asOf),
                heard |-> {}, spoilt |-> FALSE]
  /\ UNCHANGED <<now, news, disk, memory, historyVars>>

\* The loop takes symbol by symbol, each newest first.
Foremost(item) ==
  \A other \in task.todo : \/ item.symbol < other.symbol
                           \/ item.symbol = other.symbol /\ item.day >= other.day

Hear(item, verdict) ==
  task' = [task EXCEPT !.todo = @ \ {item}, !.heard = @ \cup {[item |-> item, verdict |-> verdict]}]

\* The cache has it: its key is the text, without the symbol.
AskCached(item) ==
  /\ item.text \in DOMAIN memory
  /\ Hear(item, memory[item.text])
  /\ UNCHANGED <<now, news, disk, memory, historyVars>>

With(cache, text, verdict) ==
  [t \in DOMAIN cache \cup {text} |-> IF t = text THEN verdict ELSE cache[t]]

\* A bug: an answer without confidence is not kept, to be asked again.
RememberViews(text, verdict) ==
  memory' = IF verdict.confidence = 0 THEN memory ELSE With(memory, text, verdict)

Remember(text, verdict) == memory' = With(memory, text, verdict)

\* The classifier is asked, and its answer saved; a failure of the call is an
\* answer without confidence.
AskClassifier(item) ==
  \E verdict \in Verdicts :
    /\ item.text \notin DOMAIN memory
    /\ Remember(item.text, verdict)
    /\ disk' = memory' /\ unsaved' = {}
    /\ Hear(item, verdict)
    /\ UNCHANGED <<now, news, told>>

\* _save raises, before the file is cut or halfway: the signal abstains on the
\* item, the process has the verdict all the same.
AskSaveFails(item) ==
  \E verdict \in Verdicts :
    /\ item.text \notin DOMAIN memory
    /\ Remember(item.text, verdict)
    /\ disk' \in {disk, Torn}
    /\ told' = (IF disk' = Torn THEN Nothing ELSE told)
    /\ unsaved' = unsaved \cup {item.text}
    /\ task' = [task EXCEPT !.todo = @ \ {item}, !.spoilt = TRUE]
    /\ UNCHANGED <<now, news>>

Ask == /\ task # Idle
       /\ \E item \in task.todo : /\ Foremost(item)
                                  /\ AskCached(item) \/ AskClassifier(item) \/ AskSaveFails(item)

\* The mean direction by confidence, in percents; no view where none has any.
Score(heard, s) ==
  LET views == {h \in heard : h.item.symbol = s /\ h.verdict.confidence > 0}
      weight == MapThenSumSet(LAMBDA h : h.verdict.confidence, views)
      total == MapThenSumSet(LAMBDA h : h.verdict.direction * h.verdict.confidence, views)
  IN  IF views = {} THEN [opinion |-> FALSE]
      ELSE [opinion |-> TRUE, value |-> (100 * total) \div weight]

Told == [asOf |-> task.asOf, items |-> task.items,
         scores |-> [s \in Symbols |-> Score(task.heard, s)]]

\* The file has the verdicts that were heard.
AllSaved(heard) == disk # Torn /\ \A h \in heard : h.item.text \notin unsaved

FinishScore == /\ task # Idle /\ task.todo = {}
               /\ told' = IF ~task.spoilt /\ AllSaved(task.heard) THEN Told ELSE Nothing
               /\ task' = Idle
               /\ UNCHANGED <<now, news, disk, memory, unsaved>>

\* The process ends, or is killed, between two saves or within one.
Die == /\ memory # Down
       /\ memory' = Down /\ task' = Idle /\ unsaved' = {}
       /\ UNCHANGED <<now, news, disk, told>>

DieSaving == /\ task # Idle /\ \E item \in task.todo : item.text \notin DOMAIN memory
             /\ disk' = Torn /\ told' = Nothing
             /\ memory' = Down /\ task' = Idle /\ unsaved' = {}
             /\ UNCHANGED <<now, news>>

Next == \/ IngestNews \/ NewDay \/ Start \/ StartScore \/ Ask \/ FinishScore
        \/ Die \/ DieSaving

Spec == Init /\ [][Next]_vars

-----------------------------------------------------------------------------

\* What can be read of a day is settled once the feed no longer reaches back to
\* it: a later ingest adds nothing to it, so a replay of that day reads the news
\* that was in the table, newest first and within the limit (news_live.py:27-31,
\* 44-46; store.py:303-317).
PastIsSettled ==
  [][\A asOf \in 0..LastDay : asOf + FeedAge < now => NewsAsOf(asOf)' = NewsAsOf(asOf)]_vars

\* A scoring over the same news gives the same scores, in another process, after
\* others and after saves that failed, whatever the classifier would now say of a
\* text: as long as the file keeps the verdicts that the scores rest on, and the
\* signal could use them (signals/news.py:79-85 "deterministic across runs").
ScoresRepeat ==
  [][told # Nothing /\ told' # Nothing
       /\ told'.asOf = told.asOf /\ told'.items = told.items
     => told' = told]_vars
=============================================================================
