----------------------------- MODULE News_proof -----------------------------
(***************************************************************************)
(* Proofs about news: a day's news is settled once the feed has passed it, *)
(* and the same news scores the same through any number of processes; for  *)
(* any symbols, texts, limits and verdicts.                                *)
(***************************************************************************)
EXTENDS News, TLAPS

-----------------------------------------------------------------------------
(* What the variables hold.                                                *)

Item == [symbol : Symbols, day : Int, text : Texts]

Caches == UNION {[T -> Verdicts] : T \in SUBSET Texts}

Heard == [item : Item, verdict : Verdicts]

Tasks == [asOf : Nat, items : SUBSET Item, todo : SUBSET Item,
          heard : SUBSET Heard, spoilt : BOOLEAN]

NewsTypeOK == /\ now \in Nat
              /\ news \subseteq Item
              /\ disk \in Caches \cup {Torn}
              /\ memory \in Caches \cup {Down}
              /\ task \in Tasks \cup {Idle}
              /\ task # Idle => memory # Down
              /\ unsaved \subseteq Texts

LEMMA MarkersAre == Torn \notin Caches /\ Down \notin Caches
  BY MarkersAreNoCaches DEF Caches

LEMMA EmptyIsCache == Empty \in Caches
<1>1. Empty \in [{} -> Verdicts]
  BY DEF Empty
<1>2. QED
  BY <1>1 DEF Caches

LEMMA WithIsCache ==
  ASSUME NEW cache \in Caches, NEW text \in Texts, NEW verdict \in Verdicts
  PROVE  /\ With(cache, text, verdict) \in Caches
         /\ DOMAIN With(cache, text, verdict) = DOMAIN cache \cup {text}
         /\ With(cache, text, verdict)[text] = verdict
         /\ \A t \in DOMAIN cache \ {text} : With(cache, text, verdict)[t] = cache[t]
<1>1. PICK T \in SUBSET Texts : cache \in [T -> Verdicts]
  BY DEF Caches
<1> DEFINE U == T \cup {text}
<1>2. /\ U \in SUBSET Texts
      /\ With(cache, text, verdict) = [t \in U |-> IF t = text THEN verdict ELSE cache[t]]
  BY <1>1 DEF With
<1>3. With(cache, text, verdict) \in [U -> Verdicts]
  BY <1>1, <1>2
<1>4. With(cache, text, verdict) \in Caches
  BY <1>2, <1>3 DEF Caches
<1>5. QED
  BY <1>1, <1>2, <1>4

LEMMA PublishedAreItems == now \in Nat => Published \subseteq Item
<1>1. now \in Nat => (now - FeedAge)..now \subseteq Int
  BY NewsConstants
<1>2. QED
  BY <1>1 DEF Published, Item

\* Updates of a task field by field.
LEMMA TodoIs ==
  ASSUME NEW t \in Tasks, NEW items \in SUBSET Item
  PROVE  LET u == [t EXCEPT !.todo = items]
         IN  /\ u \in Tasks /\ u.todo = items
             /\ u.heard = t.heard /\ u.asOf = t.asOf /\ u.items = t.items /\ u.spoilt = t.spoilt
  BY DEF Tasks

LEMMA HeardIs ==
  ASSUME NEW t \in Tasks, NEW heard \in SUBSET Heard
  PROVE  LET u == [t EXCEPT !.heard = heard]
         IN  /\ u \in Tasks /\ u.heard = heard
             /\ u.todo = t.todo /\ u.asOf = t.asOf /\ u.items = t.items /\ u.spoilt = t.spoilt
  BY DEF Tasks

LEMMA SpoiledIs ==
  ASSUME NEW t \in Tasks
  PROVE  LET u == [t EXCEPT !.spoilt = TRUE]
         IN  /\ u \in Tasks /\ u.spoilt
             /\ u.todo = t.todo /\ u.asOf = t.asOf /\ u.items = t.items
  BY DEF Tasks

\* An item is heard, or its save spoils the scoring.
LEMMA HearIs ==
  ASSUME task \in Tasks, NEW item \in Item, NEW verdict \in Verdicts, Hear(item, verdict)
  PROVE  /\ task' \in Tasks
         /\ task'.asOf = task.asOf /\ task'.items = task.items /\ task'.spoilt = task.spoilt
         /\ task'.todo = task.todo \ {item}
         /\ task'.heard = task.heard \cup {[item |-> item, verdict |-> verdict]}
<1> DEFINE rest == task.todo \ {item}
           one == [task EXCEPT !.todo = rest]
           heard == one.heard \cup {[item |-> item, verdict |-> verdict]}
<1>1. rest \in SUBSET Item /\ task.heard \in SUBSET Heard
  BY DEF Tasks
<1>2. one \in Tasks /\ one.todo = rest /\ one.heard = task.heard /\ one.asOf = task.asOf
      /\ one.items = task.items /\ one.spoilt = task.spoilt
  BY <1>1, TodoIs
<1>3. heard \in SUBSET Heard
  BY <1>1, <1>2 DEF Heard
<1>4. task' = [one EXCEPT !.heard = heard]
  BY <1>2, Zenon DEF Hear
<1> HIDE DEF one, heard
<1>5. /\ task' \in Tasks /\ task'.heard = heard /\ task'.todo = one.todo
      /\ task'.asOf = one.asOf /\ task'.items = one.items /\ task'.spoilt = one.spoilt
  BY <1>2, <1>3, <1>4, HeardIs
<1>6. QED
  BY <1>2, <1>5 DEF heard

LEMMA SpoiltIs ==
  ASSUME task \in Tasks, NEW item \in Item,
         task' = [task EXCEPT !.todo = @ \ {item}, !.spoilt = TRUE]
  PROVE  /\ task' \in Tasks /\ task'.spoilt
         /\ task'.todo = task.todo \ {item} /\ task'.asOf = task.asOf /\ task'.items = task.items
<1> DEFINE one == [task EXCEPT !.todo = task.todo \ {item}]
<1>1. one \in Tasks /\ one.todo = task.todo \ {item} /\ one.asOf = task.asOf /\ one.items = task.items
  BY TodoIs DEF Tasks
<1>2. task' = [one EXCEPT !.spoilt = TRUE]
  BY Zenon
<1> HIDE DEF one
<1>3. QED
  BY <1>1, <1>2, SpoiledIs

LEMMA AskKeeps ==
  ASSUME Ask
  PROVE  now' = now /\ news' = news /\ (told' = told \/ told' = Nothing)
<1>1. PICK item \in task.todo : AskCached(item) \/ AskClassifier(item) \/ AskSaveFails(item)
  BY DEF Ask
<1>2. QED
  BY <1>1 DEF AskCached, AskClassifier, AskSaveFails, historyVars

LEMMA NewsTypeInit == Init => NewsTypeOK
  BY EmptyIsCache DEF Init, NewsTypeOK

LEMMA NewsTypeStep == NewsTypeOK /\ [Next]_vars => NewsTypeOK'
<1> SUFFICES ASSUME NewsTypeOK, [Next]_vars
             PROVE  NewsTypeOK'
  OBVIOUS
<1> USE DEF NewsTypeOK
<1>1. CASE IngestNews
  <2>1. PICK items \in SUBSET Published : news' = news \cup items
    BY <1>1 DEF IngestNews
  <2>2. items \subseteq Item
    BY <2>1, PublishedAreItems
  <2>3. QED
    BY <1>1, <2>1, <2>2 DEF IngestNews, historyVars
<1>2. CASE NewDay
  BY <1>2 DEF NewDay, historyVars
<1>3. CASE Start
  BY <1>3, EmptyIsCache DEF Start, historyVars
<1>4. CASE StartScore
  <2> DEFINE Scoring(asOf, items) ==
               task' = [asOf |-> asOf, items |-> items, todo |-> Recent(items, asOf),
                        heard |-> {}, spoilt |-> FALSE]
  <2>0. PICK asOf \in 1..now : \E items \in NewsAsOf(asOf) : Scoring(asOf, items)
    BY <1>4 DEF StartScore
  <2>1. PICK items \in NewsAsOf(asOf) : Scoring(asOf, items)
    BY <2>0
  <2>2. items \in SUBSET Item /\ asOf \in Nat
    BY <2>1 DEF NewsAsOf, Knowable
  <2>3. Recent(items, asOf) \in SUBSET Item
    BY <2>2 DEF Recent
  <2>4. task' \in Tasks
    BY <2>1, <2>2, <2>3 DEF Tasks
  <2>5. QED
    BY <1>4, <2>4 DEF StartScore, historyVars
<1>5. CASE Ask
  <2>1. task \in Tasks /\ memory \in Caches
    BY <1>5 DEF Ask
  <2>2. PICK item \in task.todo : AskCached(item) \/ AskClassifier(item) \/ AskSaveFails(item)
    BY <1>5 DEF Ask
  <2>3. item \in Item /\ item.text \in Texts
    BY <2>1, <2>2 DEF Tasks, Item
  <2>4. CASE AskCached(item)
    <3>1. memory[item.text] \in Verdicts
      BY <2>1, <2>4 DEF AskCached, Caches
    <3>2. task' \in Tasks
      BY <2>1, <2>3, <2>4, <3>1, HearIs DEF AskCached
    <3>3. QED
      BY <2>1, <2>4, <3>2, MarkersAre DEF AskCached, historyVars
  <2>5. CASE AskClassifier(item)
    <3>1. PICK verdict \in Verdicts : /\ memory' = With(memory, item.text, verdict)
                                      /\ Hear(item, verdict) /\ disk' = memory'
                                      /\ now' = now /\ news' = news /\ unsaved' = {}
      BY <2>5 DEF AskClassifier, Remember
    <3>2. memory' \in Caches
      BY <2>1, <2>3, <3>1, WithIsCache
    <3>3. task' \in Tasks
      BY <2>1, <2>3, <3>1, HearIs
    <3>4. QED
      BY <3>1, <3>2, <3>3, MarkersAre
  <2>6. CASE AskSaveFails(item)
    <3>1. PICK verdict \in Verdicts : /\ memory' = With(memory, item.text, verdict)
                                      /\ task' = [task EXCEPT !.todo = @ \ {item}, !.spoilt = TRUE]
                                      /\ disk' \in {disk, Torn} /\ now' = now /\ news' = news
                                      /\ unsaved' = unsaved \cup {item.text}
      BY <2>6 DEF AskSaveFails, Remember
    <3>2. memory' \in Caches
      BY <2>1, <2>3, <3>1, WithIsCache
    <3>3. task' \in Tasks
      BY <2>1, <2>3, <3>1, SpoiltIs, Zenon
    <3>4. QED
      BY <2>3, <3>1, <3>2, <3>3, MarkersAre
  <2>7. QED
    BY <2>2, <2>4, <2>5, <2>6
<1>6. CASE FinishScore
  BY <1>6 DEF FinishScore
<1>7. CASE Die
  BY <1>7 DEF Die
<1>8. CASE DieSaving
  BY <1>8 DEF DieSaving
<1>9. CASE UNCHANGED vars
  BY <1>9 DEF vars, historyVars
<1>10. QED
  BY <1>1, <1>2, <1>3, <1>4, <1>5, <1>6, <1>7, <1>8, <1>9 DEF Next

LEMMA NewsTypeHolds == Spec => []NewsTypeOK
  BY NewsTypeInit, NewsTypeStep, PTL DEF Spec

-----------------------------------------------------------------------------
(* What is past is settled.                                                *)

\* A day the feed no longer reaches back to reads the same for good.
THEOREM NewsIsSettled == Spec => PastIsSettled
<1> DEFINE Settled == \A asOf \in 0..LastDay :
                        asOf + FeedAge < now => NewsAsOf(asOf)' = NewsAsOf(asOf)
<1>1. NewsTypeOK /\ [Next]_vars => [Settled]_vars
  <2>1. SUFFICES ASSUME NewsTypeOK, Next, NEW asOf \in 0..LastDay, asOf + FeedAge < now
                 PROVE  NewsAsOf(asOf)' = NewsAsOf(asOf)
    OBVIOUS
  <2>2. Knowable(asOf)' = Knowable(asOf)
    <3>1. CASE IngestNews
      <4>1. PICK items \in SUBSET Published : news' = news \cup items
        BY <3>1 DEF IngestNews
      <4>2. \A item \in items : ~(item.day <= asOf)
        <5>1. \A item \in Published : item.day \in (now - FeedAge)..now
          BY DEF Published
        <5>2. now \in Nat /\ FeedAge \in Nat /\ asOf \in Int
          BY <2>1, NewsConstants DEF NewsTypeOK
        <5>3. QED
          BY <2>1, <5>1, <5>2
      <4>3. QED
        BY <4>1, <4>2 DEF Knowable
    <3>2. CASE ~IngestNews
      <4>1. news' = news
        BY <2>1, <3>2, AskKeeps DEF Next, NewDay, Start, StartScore, FinishScore, Die, DieSaving
      <4>2. QED
        BY <4>1 DEF Knowable
    <3>3. QED
      BY <3>1, <3>2
  <2>3. QED
    BY <2>2 DEF NewsAsOf
<1>2. QED
  BY <1>1, NewsTypeHolds, PTL DEF Spec, PastIsSettled

-----------------------------------------------------------------------------
(* Scores repeat.                                                          *)

\* What is heard of some items from a cache that has their texts.
HeardFrom(items, cache) == {[item |-> i, verdict |-> cache[i.text]] : i \in items}

Has(cache, items) == \A i \in items : i.text \in DOMAIN cache

Scored(asOf, items, cache) ==
  [asOf |-> asOf, items |-> items,
   scores |-> [s \in Symbols |-> Score(HeardFrom(Recent(items, asOf), cache), s)]]

\* The file, unless cut short, is the memory of the process but for what no save
\* has taken along.
FileIsMemory ==
  memory # Down /\ disk # Torn =>
    /\ DOMAIN disk \subseteq DOMAIN memory /\ DOMAIN memory \ unsaved \subseteq DOMAIN disk
    /\ \A t \in DOMAIN disk : disk[t] = memory[t]

\* What a scoring has heard is what the memory has of the items done.
TaskInv ==
  task # Idle =>
    /\ task.todo \subseteq Recent(task.items, task.asOf)
    /\ ~task.spoilt => LET done == Recent(task.items, task.asOf) \ task.todo
                       IN  Has(memory, done) /\ task.heard = HeardFrom(done, memory)

\* The scores last told are those of the file.
ToldInv ==
  told # Nothing =>
    /\ disk # Torn
    /\ Has(disk, Recent(told.items, told.asOf))
    /\ told = Scored(told.asOf, told.items, disk)

RepeatInv == FileIsMemory /\ TaskInv /\ ToldInv

\* A cache that only grew says the same of what it had.
LEMMA SameHeard ==
  ASSUME NEW items, NEW cache, NEW larger, Has(cache, items),
         DOMAIN cache \subseteq DOMAIN larger,
         \A t \in DOMAIN cache : larger[t] = cache[t]
  PROVE  Has(larger, items) /\ HeardFrom(items, larger) = HeardFrom(items, cache)
<1>1. \A i \in items : i.text \in DOMAIN larger /\ larger[i.text] = cache[i.text]
  BY DEF Has
<1>2. QED
  BY <1>1 DEF Has, HeardFrom

LEMMA RepeatInit == Init => RepeatInv
  BY DEF Init, RepeatInv, FileIsMemory, TaskInv, ToldInv

LEMMA FileStays ==
  ASSUME RepeatInv, UNCHANGED <<disk, memory, historyVars>>
  PROVE  FileIsMemory' /\ ToldInv'
  BY DEF historyVars, RepeatInv, FileIsMemory, ToldInv, Has, Scored, HeardFrom

\* A verdict kept changes none that was.
LEMMA MemoryGrows ==
  ASSUME memory \in Caches, NEW text \in Texts, NEW verdict \in Verdicts,
         text \notin DOMAIN memory, memory' = With(memory, text, verdict)
  PROVE  /\ memory' \in Caches /\ DOMAIN memory' = DOMAIN memory \cup {text}
         /\ memory'[text] = verdict /\ \A t \in DOMAIN memory : memory'[t] = memory[t]
<1>1. PICK cache \in Caches : cache = memory
  OBVIOUS
<1>2. /\ With(cache, text, verdict) \in Caches
      /\ DOMAIN With(cache, text, verdict) = DOMAIN cache \cup {text}
      /\ With(cache, text, verdict)[text] = verdict
      /\ \A t \in DOMAIN cache \ {text} : With(cache, text, verdict)[t] = cache[t]
  BY WithIsCache
<1>3. QED
  BY <1>1, <1>2

LEMMA RepeatAsk ==
  ASSUME NewsTypeOK, RepeatInv, Ask
  PROVE  RepeatInv'
<1>1. task \in Tasks /\ task # Idle /\ memory \in Caches
  BY DEF Ask, NewsTypeOK
<1>2. PICK item \in task.todo : AskCached(item) \/ AskClassifier(item) \/ AskSaveFails(item)
  BY DEF Ask
<1>3. item \in Item /\ item.text \in Texts
  BY <1>1, <1>2 DEF Tasks, Item
<1> DEFINE recent == Recent(task.items, task.asOf)
           done == recent \ task.todo
<1>4. /\ task.todo \subseteq recent /\ item \in recent
      /\ ~task.spoilt => Has(memory, done) /\ task.heard = HeardFrom(done, memory)
  BY <1>1, <1>2 DEF RepeatInv, TaskInv
<1> HIDE DEF recent
<1>5. \A cache : HeardFrom(done \cup {item}, cache)
                   = HeardFrom(done, cache) \cup {[item |-> item, verdict |-> cache[item.text]]}
  BY DEF HeardFrom
<1>6. ASSUME NEW verdict \in Verdicts, Hear(item, verdict),
             item.text \in DOMAIN memory', memory'[item.text] = verdict,
             DOMAIN memory \subseteq DOMAIN memory',
             \A t \in DOMAIN memory : memory'[t] = memory[t]
      PROVE  TaskInv'
  <2>1. /\ task'.asOf = task.asOf /\ task'.items = task.items /\ task'.spoilt = task.spoilt
        /\ task'.todo = task.todo \ {item}
        /\ task'.heard = task.heard \cup {[item |-> item, verdict |-> verdict]}
    BY <1>1, <1>3, <1>6, HearIs
  <2>2. Recent(task'.items, task'.asOf) = recent
    BY <2>1 DEF recent
  <2>3. recent \ task'.todo = done \cup {item}
    BY <1>2, <1>4, <2>1
  <2>4. ASSUME ~task.spoilt
        PROVE  /\ Has(memory', done \cup {item})
               /\ task'.heard = HeardFrom(done \cup {item}, memory')
    <3>1. Has(memory', done) /\ HeardFrom(done, memory') = HeardFrom(done, memory)
      BY <1>4, <1>6, <2>4, SameHeard
    <3>2. task'.heard = HeardFrom(done, memory') \cup {[item |-> item, verdict |-> memory'[item.text]]}
      BY <1>4, <1>6, <2>1, <2>4, <3>1
    <3>3. QED
      BY <1>5, <1>6, <3>1, <3>2 DEF Has
  <2>5. task'.todo \subseteq recent
    BY <1>4, <2>1
  <2>6. QED
    BY <2>1, <2>2, <2>3, <2>4, <2>5, Zenon DEF TaskInv
<1>7. CASE AskCached(item)
  <2>1. item.text \in DOMAIN memory /\ Hear(item, memory[item.text])
        /\ UNCHANGED <<disk, memory, historyVars>>
    BY <1>7 DEF AskCached
  <2>2. memory[item.text] \in Verdicts
    BY <1>1, <2>1 DEF Caches
  <2>3. TaskInv'
    BY <1>6, <2>1, <2>2
  <2>4. QED
    BY <2>1, <2>3, FileStays DEF RepeatInv
<1>8. CASE AskClassifier(item)
  <2>1. PICK verdict \in Verdicts : /\ memory' = With(memory, item.text, verdict)
                                    /\ Hear(item, verdict) /\ disk' = memory' /\ told' = told
                                    /\ item.text \notin DOMAIN memory
    BY <1>8 DEF AskClassifier, Remember
  <2>2. /\ memory' \in Caches /\ DOMAIN memory' = DOMAIN memory \cup {item.text}
        /\ memory'[item.text] = verdict /\ \A t \in DOMAIN memory : memory'[t] = memory[t]
    <3>1. PICK text \in Texts : text = item.text
      BY <1>3
    <3>2. memory' = With(memory, text, verdict) /\ text \notin DOMAIN memory
      BY <2>1, <3>1
    <3>3. /\ memory' \in Caches /\ DOMAIN memory' = DOMAIN memory \cup {text}
          /\ memory'[text] = verdict /\ \A t \in DOMAIN memory : memory'[t] = memory[t]
      BY <1>1, <3>2, MemoryGrows
    <3>4. QED
      BY <3>1, <3>3
  <2>3. TaskInv'
    BY <1>6, <2>1, <2>2
  <2>4. disk' # Torn
    BY <2>1, <2>2, MarkersAre
  <2>5. ASSUME told # Nothing
        PROVE  /\ Has(disk', Recent(told.items, told.asOf))
               /\ told = Scored(told.asOf, told.items, disk')
    <3>1. /\ DOMAIN disk \subseteq DOMAIN memory /\ \A t \in DOMAIN disk : disk[t] = memory[t]
          /\ Has(disk, Recent(told.items, told.asOf))
          /\ told = Scored(told.asOf, told.items, disk)
      BY <1>1, <2>5, MarkersAre DEF RepeatInv, FileIsMemory, ToldInv
    <3>2. /\ Has(disk', Recent(told.items, told.asOf))
          /\ HeardFrom(Recent(told.items, told.asOf), disk')
               = HeardFrom(Recent(told.items, told.asOf), disk)
      <4>1. DOMAIN disk \subseteq DOMAIN disk' /\ \A t \in DOMAIN disk : disk'[t] = disk[t]
        BY <2>1, <2>2, <3>1
      <4>2. QED
        BY <3>1, <4>1, SameHeard
    <3>3. QED
      BY <3>1, <3>2 DEF Scored
  <2>6. ToldInv'
    BY <2>1, <2>4, <2>5 DEF ToldInv
  <2>7. QED
    BY <2>1, <2>3, <2>6 DEF RepeatInv, FileIsMemory
<1>9. CASE AskSaveFails(item)
  <2>1. PICK verdict \in Verdicts : /\ task' = [task EXCEPT !.todo = @ \ {item}, !.spoilt = TRUE]
                                    /\ memory' = With(memory, item.text, verdict)
                                    /\ disk' \in {disk, Torn}
                                    /\ told' = (IF disk' = Torn THEN Nothing ELSE told)
                                    /\ unsaved' = unsaved \cup {item.text}
                                    /\ item.text \notin DOMAIN memory
    BY <1>9 DEF AskSaveFails, Remember
  <2>2. /\ task'.spoilt /\ task'.todo = task.todo \ {item}
        /\ task'.items = task.items /\ task'.asOf = task.asOf
    BY <1>1, <1>3, <2>1, SpoiltIs, Zenon
  <2>3. TaskInv'
    <3>1. task'.todo \subseteq Recent(task'.items, task'.asOf)
      BY <1>4, <2>2 DEF recent
    <3>2. QED
      BY <2>2, <3>1 DEF TaskInv
  <2>4. FileIsMemory'
    <3>1. /\ DOMAIN memory' = DOMAIN memory \cup {item.text}
          /\ \A t \in DOMAIN memory : memory'[t] = memory[t]
      <4>1. PICK text \in Texts : text = item.text
        BY <1>3
      <4>2. memory' = With(memory, text, verdict) /\ text \notin DOMAIN memory
        BY <2>1, <4>1
      <4>3. /\ DOMAIN memory' = DOMAIN memory \cup {text}
            /\ \A t \in DOMAIN memory : memory'[t] = memory[t]
        BY <1>1, <4>2, MemoryGrows
      <4>4. QED
        BY <4>1, <4>3
    <3>2. SUFFICES ASSUME disk' # Torn
                   PROVE  /\ DOMAIN disk' \subseteq DOMAIN memory'
                          /\ DOMAIN memory' \ unsaved' \subseteq DOMAIN disk'
                          /\ \A t \in DOMAIN disk' : disk'[t] = memory'[t]
      BY DEF FileIsMemory
    <3>3. /\ disk' = disk /\ disk # Torn
          /\ DOMAIN disk \subseteq DOMAIN memory /\ DOMAIN memory \ unsaved \subseteq DOMAIN disk
          /\ \A t \in DOMAIN disk : disk[t] = memory[t]
      BY <1>1, <2>1, <3>2, MarkersAre DEF RepeatInv, FileIsMemory
    <3>4. QED
      BY <2>1, <3>1, <3>3
  <2>5. ToldInv'
    <3>1. CASE disk' = Torn
      BY <2>1, <3>1 DEF ToldInv
    <3>2. CASE disk' = disk /\ told' = told
      BY <3>2 DEF RepeatInv, ToldInv, Has, Scored, HeardFrom
    <3>3. QED
      BY <2>1, <3>1, <3>2
  <2>6. QED
    BY <2>3, <2>4, <2>5 DEF RepeatInv
<1>10. QED
  BY <1>2, <1>7, <1>8, <1>9

LEMMA RepeatStep == NewsTypeOK /\ RepeatInv /\ [Next]_vars => RepeatInv'
<1> SUFFICES ASSUME NewsTypeOK, RepeatInv, [Next]_vars
             PROVE  RepeatInv'
  OBVIOUS
<1>1. CASE UNCHANGED <<disk, memory, task, historyVars>>
  <2>1. TaskInv'
    BY <1>1 DEF RepeatInv, TaskInv, Has, HeardFrom, Recent
  <2>2. QED
    BY <1>1, <2>1, FileStays DEF RepeatInv
<1>2. CASE Start
  <2>1. task = Idle /\ task' = task /\ disk' = disk /\ told' = told
        /\ memory' = IF disk = Torn THEN Empty ELSE disk
    BY <1>2 DEF Start, NewsTypeOK, historyVars
  <2>2. ToldInv'
    BY <2>1 DEF RepeatInv, ToldInv, Has, Scored, HeardFrom
  <2>3. QED
    BY <2>1, <2>2 DEF RepeatInv, FileIsMemory, TaskInv
<1>3. CASE StartScore
  <2> DEFINE Scoring(asOf, items) ==
               task' = [asOf |-> asOf, items |-> items, todo |-> Recent(items, asOf),
                        heard |-> {}, spoilt |-> FALSE]
  <2>1. PICK asOf \in 1..now : \E items \in NewsAsOf(asOf) : Scoring(asOf, items)
    BY <1>3 DEF StartScore
  <2>2. PICK items \in NewsAsOf(asOf) : Scoring(asOf, items)
    BY <2>1
  <2>3. /\ task'.asOf = asOf /\ task'.items = items /\ task'.heard = {}
        /\ task'.todo = Recent(items, asOf)
    BY <2>2
  <2>4. TaskInv'
    BY <2>3 DEF TaskInv, Has, HeardFrom
  <2>5. QED
    BY <1>3, <2>4, FileStays DEF RepeatInv, StartScore, historyVars
<1>4. CASE Ask
  BY <1>4, RepeatAsk
<1>5. CASE FinishScore
  <2>1. task # Idle /\ task.todo = {} /\ disk' = disk /\ memory' = memory /\ task' = Idle
        /\ told' = (IF ~task.spoilt /\ AllSaved(task.heard) THEN Told ELSE Nothing)
        /\ unsaved' = unsaved
    BY <1>5 DEF FinishScore
  <2>2. ASSUME ~task.spoilt, AllSaved(task.heard)
        PROVE  /\ Has(disk, Recent(task.items, task.asOf))
               /\ Told = Scored(task.asOf, task.items, disk)
    <3> DEFINE recent == Recent(task.items, task.asOf)
    <3>1. /\ DOMAIN disk \subseteq DOMAIN memory /\ DOMAIN memory \ unsaved \subseteq DOMAIN disk
          /\ \A t \in DOMAIN disk : disk[t] = memory[t]
      BY <2>1, <2>2 DEF NewsTypeOK, RepeatInv, FileIsMemory, AllSaved
    <3>2. Has(memory, recent) /\ task.heard = HeardFrom(recent, memory)
      <4>1. recent \ task.todo = recent
        BY <2>1
      <4>2. QED
        BY <2>1, <2>2, <4>1 DEF RepeatInv, TaskInv
    <3> HIDE DEF recent
    <3>3. Has(disk, recent)
      <4>1. ASSUME NEW i \in recent PROVE i.text \notin unsaved
        <5> DEFINE h == [item |-> i, verdict |-> memory[i.text]]
        <5>1. h \in HeardFrom(recent, memory)
          BY DEF HeardFrom
        <5>2. h \in task.heard
          BY <3>2, <5>1
        <5>3. h.item.text \notin unsaved
          BY <2>2, <5>2 DEF AllSaved
        <5>4. QED
          BY <5>3
      <4>2. QED
        BY <3>1, <3>2, <4>1 DEF Has
    <3>4. HeardFrom(recent, memory) = HeardFrom(recent, disk)
      BY <3>1, <3>3, SameHeard
    <3>5. QED
      BY <3>2, <3>3, <3>4 DEF Told, Scored, recent
  <2>3. ToldInv'
    <3>1. CASE ~(~task.spoilt /\ AllSaved(task.heard))
      BY <2>1, <3>1 DEF ToldInv
    <3>2. CASE ~task.spoilt /\ AllSaved(task.heard)
      <4>1. told' = Scored(task.asOf, task.items, disk') /\ disk' # Torn
            /\ Has(disk', Recent(task.items, task.asOf))
        BY <2>1, <2>2, <3>2 DEF AllSaved
      <4>2. told'.asOf = task.asOf /\ told'.items = task.items
        BY <4>1 DEF Scored
      <4>3. QED
        BY <4>1, <4>2 DEF ToldInv
    <3>3. QED
      BY <3>1, <3>2
  <2>4. QED
    BY <2>1, <2>3 DEF RepeatInv, FileIsMemory, TaskInv
<1>6. CASE Die
  <2>1. memory' = Down /\ task' = Idle /\ disk' = disk /\ told' = told
    BY <1>6 DEF Die
  <2>2. ToldInv'
    BY <2>1 DEF RepeatInv, ToldInv, Has, Scored, HeardFrom
  <2>3. QED
    BY <2>1, <2>2 DEF RepeatInv, FileIsMemory, TaskInv
<1>7. CASE DieSaving
  BY <1>7 DEF DieSaving, RepeatInv, FileIsMemory, TaskInv, ToldInv
<1>8. QED
  BY <1>1, <1>2, <1>3, <1>4, <1>5, <1>6, <1>7 DEF Next, IngestNews, NewDay, vars, historyVars

\* The same news scores the same: in another process, after other scorings, and
\* whatever the classifier would now say.
THEOREM NewsScoresRepeat == Spec => ScoresRepeat
<1> DEFINE Repeats == told # Nothing /\ told' # Nothing
                        /\ told'.asOf = told.asOf /\ told'.items = told.items
                      => told' = told
<1>1. RepeatInv /\ RepeatInv' /\ [Next]_vars => [Repeats]_vars
  <2>1. SUFFICES ASSUME RepeatInv, RepeatInv', Next,
                        told # Nothing, told' # Nothing,
                        told'.asOf = told.asOf, told'.items = told.items
                 PROVE  told' = told
    OBVIOUS
  <2>2. CASE told' = told
    BY <2>2
  <2>3. CASE FinishScore
    <3>1. disk' = disk
      BY <2>3 DEF FinishScore
    <3>2. told = Scored(told.asOf, told.items, disk) /\ told' = Scored(told'.asOf, told'.items, disk')
      BY <2>1 DEF RepeatInv, ToldInv
    <3>3. QED
      BY <2>1, <3>1, <3>2
  <2>5. QED
    BY <2>1, <2>2, <2>3, AskKeeps DEF Next, IngestNews, NewDay, Start, StartScore, Die, DieSaving, historyVars
<1>2. NewsTypeOK /\ [Next]_vars => NewsTypeOK'
  BY NewsTypeStep
<1>3. QED
  BY <1>1, <1>2, NewsTypeInit, RepeatInit, RepeatStep, PTL DEF Spec, ScoresRepeat
=============================================================================
