------------------------------ MODULE Curation ------------------------------
(***************************************************************************)
(* How a channel's rules come about.  The listener queues the messages the *)
(* interpreter had to read (unmatched_store.py) and keeps them as samples  *)
(* (learning_store.py); the bot proposes rules from the samples            *)
(* (bot_loops/learning_loop.py, suggestion_store.py); in the panel the     *)
(* operator promotes messages, decides on proposals, edits triggers and    *)
(* fields and generates profiles (gui/views/).  All of them meet in one    *)
(* profile file, which the listener reads again when its time has changed. *)
(*                                                                         *)
(* One channel, one profile.  The panel has one thread: while a dialog is  *)
(* open it does nothing else, but listener and bot go on.                  *)
(***************************************************************************)
EXTENDS Integers, Sequences, FiniteSets, ChannelLearner

LOCAL INSTANCE SequencesExt
LOCAL INSTANCE FiniteSetsExt

M == INSTANCE TriggerMatcher
F == INSTANCE ProfileFile

CONSTANTS
  Incoming,     \* messages of the channel, texts of TriggerMatcher
  Verdicts,     \* of each: [category, types], what the interpreter may say
  NewTriggers,  \* rows the operator may type in
  Generated,    \* trigger lists the generator wizard may end with
  Situations,   \* MatchContexts the listener may be in
  Simulated,    \* those the Test pane is asked about
  Symbol,       \* the profile has a trading symbol
  QueueCap, BatchN, CorpusMax,
  None,
  MaxArrivals, MaxEdits,
  MaxMishaps    \* runs that fail and restarts

ASSUME CurationAssumption ==
  /\ {MaxArrivals, MaxEdits, MaxMishaps} \subseteq Nat
  /\ {QueueCap, BatchN, CorpusMax} \subseteq Nat \ {0}
  /\ Symbol \in BOOLEAN
  /\ \A text \in Incoming : \A v \in Verdicts[text] :
       v.category \in {"signal", "partial_signal", "context", "ignore"}

VARIABLES
  file,       \* profile.json
  parsed,     \* the matcher's cache: rules, and whether the file is unchanged since
  queue,      \* unmatched_messages, oldest first
  corpus,     \* learning_samples, oldest first
  mark,       \* last_seen of the learning loop, in memory
  proposals,  \* learning_suggestions
  tab,        \* the Triggers tab: rows in memory
  form,       \* the Editor tab: the fields as loaded, and as edited
  dialog,     \* what the panel's thread is in the middle of
  bulk,       \* a bulk import is being classified
  promoted,   \* triggers promoted from the queue and not deleted since
  written,    \* proposals whose rule has been written
  arrivals, edits, mishaps

listener == <<parsed, queue, corpus, arrivals>>
bot == <<mark, proposals>>
panel == <<tab, form, dialog, bulk>>
history == <<promoted, written>>
vars == <<file, listener, bot, panel, history, edits, mishaps>>

Quiet == [step |-> "none", row |-> None, id |-> 0]

Rows(profile) == [rows |-> F!LoadTriggers(profile), dirty |-> FALSE]
Fields(profile) == [noise |-> profile.noise, edited |-> FALSE]

Init ==
  /\ file = F!Empty
  /\ parsed = [fresh |-> FALSE, triggers |-> <<>>]
  /\ queue = <<>> /\ corpus = <<>>
  /\ mark = None /\ proposals = <<>>
  /\ tab = Rows(file) /\ form = Fields(file)
  /\ dialog = Quiet /\ bulk = FALSE
  /\ promoted = {} /\ written = {}
  /\ arrivals = 0 /\ edits = 0 /\ mishaps = 0

-----------------------------------------------------------------------------
(* The listener.                                                           *)

Scores(text, rules) ==
  [i \in DOMAIN rules |-> IF <<text, M!Active(rules[i])>> \in Near THEN 1 ELSE 0]

(* Layer 2 may be out of order: no key, an error, a cooldown.              *)
Reads(text, triggers, ctx, embeds) ==
  LET rules == M!RulesOf(triggers)
      scores == IF embeds THEN Scores(text, rules) ELSE [i \in DOMAIN rules |-> 0]
  IN  IF rules = <<>> THEN M!NoMatch
      ELSE M!MatchText(text, rules, ctx, Symbol, scores, 1)

(* The first type of the verdict that a trigger could emit.                *)
SuggestedActionType(types) ==
  LET able == SelectSeq(types, LAMBDA t : t \in M!Allowed)
  IN  IF able = <<>> THEN None ELSE able[1]

(* record() and _prune(): one row per text, the oldest go beyond the cap.  *)
Queued(rows, text, types) ==
  IF SuggestedActionType(types) = None \/ (\E i \in DOMAIN rows : rows[i].text = text)
  THEN rows
  ELSE LET all == Append(rows, [text |-> text, type |-> SuggestedActionType(types)])
       IN  SubSeq(all, Max({1, Len(all) - QueueCap + 1}), Len(all))

(* capture(): a resend is counted; its first label stays.                  *)
Captured(samples, text, verdict, triage) ==
  IF \E i \in DOMAIN samples : samples[i].text = text
  THEN [i \in DOMAIN samples |->
          IF samples[i].text = text
          THEN [samples[i] EXCEPT !.seen = Min({@ + 1, MinSupport})] ELSE samples[i]]
  ELSE Append(samples, [text |-> text, category |-> verdict.category, types |-> verdict.types,
                        triage |-> triage, seen |-> 1, embedded |-> FALSE,
                        id |-> IF samples = <<>> THEN 1 ELSE Last(samples).id + 1])

(* Mutant: parsed once, never again.                                       *)
LoadedOnce == IF parsed.fresh \/ parsed.triggers # <<>> THEN parsed
              ELSE [fresh |-> TRUE, triggers |-> file.triggers]

(* _load_cache(): the file is parsed again when its time has changed.      *)
Reparsed == IF parsed.fresh THEN parsed ELSE [fresh |-> TRUE, triggers |-> file.triggers]

(* One message through matcher, triage and interpreter.  Triage says keep  *)
(* (or fails), or ignore; that goes on as well when it cannot be logged.  *)
(* A message of a replay is not queued.                                    *)
Arrive ==
  \E text \in Incoming, ctx \in Situations, embeds \in BOOLEAN, replay \in BOOLEAN :
    /\ arrivals < MaxArrivals
    /\ arrivals' = arrivals + 1
    /\ parsed' = Reparsed
    /\ \/ /\ Reads(text, parsed'.triggers, ctx, embeds) # M!NoMatch
          /\ UNCHANGED <<queue, corpus>>
       \/ /\ Reads(text, parsed'.triggers, ctx, embeds) = M!NoMatch
          /\ \/ UNCHANGED <<queue, corpus>>     \* triage ignores it, or the interpreter fails
             \/ \E verdict \in Verdicts[text], triage \in {"keep", "ignore"} :
                  /\ corpus' = Captured(corpus, text, verdict, triage)
                  /\ queue' = IF replay THEN queue ELSE Queued(queue, text, verdict.types)
    /\ UNCHANGED <<file, bot, panel, history, edits, mishaps>>

-----------------------------------------------------------------------------
(* The bot's learning loop.                                                *)

MaxId == IF corpus = <<>> THEN 0 ELSE Last(corpus).id
CountSince(id) == Cardinality({i \in DOMAIN corpus : corpus[i].id > id})

(* add(): the same proposal is not made while it is pending; the evidence  *)
(* is no part of what makes it the same.                                   *)
Key(p) == <<p.kind, p.type, p.texts>>
Pending(list, draft) ==
  \E i \in DOMAIN list : list[i].status = "proposed" /\ Key(list[i]) = Key(draft)
Add(list, draft) ==
  IF Pending(list, draft) THEN list
  ELSE Append(list, [kind |-> draft.kind, type |-> draft.type, texts |-> draft.texts,
                     safe |-> draft.safe, status |-> "proposed"])

Embedded(samples) == [i \in DOMAIN samples |-> [samples[i] EXCEPT !.embedded = TRUE]]

(* expire_old(): proposals nobody has decided on.                          *)
Expired(old) ==
  [i \in DOMAIN proposals |->
     IF i \in old THEN [proposals[i] EXCEPT !.status = "expired"] ELSE proposals[i]]

(* One round of learning_loop with run_channel_once.  The mark moves before*)
(* the run: a run that fails has used up its batch.                        *)
RunOnce(embeds, old) ==
  \E samples \in {IF embeds THEN Embedded(corpus) ELSE corpus} :
  \E drafts \in {Learn(SubSeq(Reverse(samples), 1, Min({CorpusMax, Len(samples)})))} :
    /\ corpus' = SubSeq(samples, Max({1, Len(samples) - CorpusMax + 1}), Len(samples))
    /\ proposals' = FoldLeft(Add, Expired(old), drafts)

LearnTick ==
  \E old \in SUBSET {i \in DOMAIN proposals : proposals[i].status = "proposed"} :
    /\ corpus # <<>>
    /\ \/ /\ mark = None
          /\ mark' = MaxId /\ proposals' = Expired(old)
          /\ UNCHANGED <<corpus, mishaps>>
       \/ /\ mark # None /\ CountSince(mark) < BatchN /\ old # {}
          /\ proposals' = Expired(old)
          /\ UNCHANGED <<mark, corpus, mishaps>>
       \/ /\ mark # None /\ CountSince(mark) >= BatchN
          /\ mark' = MaxId
          /\ \/ RunOnce(TRUE, old) /\ UNCHANGED mishaps
             \/ mishaps < MaxMishaps /\ mishaps' = mishaps + 1 /\ RunOnce(FALSE, old)
             \/ /\ mishaps < MaxMishaps /\ mishaps' = mishaps + 1
                /\ proposals' = Expired(old) /\ UNCHANGED corpus
    /\ UNCHANGED <<file, parsed, queue, arrivals, panel, history, edits>>

BotRestart ==
  /\ mishaps < MaxMishaps /\ mark # None
  /\ mishaps' = mishaps + 1 /\ mark' = None
  /\ UNCHANGED <<file, listener, proposals, panel, history, edits>>

-----------------------------------------------------------------------------
(* The panel.                                                              *)

Write(profile) == file' = profile /\ parsed' = [parsed EXCEPT !.fresh = FALSE]

AtRest == dialog = Quiet
Edit == AtRest /\ edits < MaxEdits /\ edits' = edits + 1
Background == <<queue, corpus, arrivals, bot, mishaps>>

(* The rows of the Triggers tab: add, delete, switch a type on or off,     *)
(* move or copy a row to another type, change its sample.                  *)
Deleted(i) == SubSeq(tab.rows, 1, i - 1) \o SubSeq(tab.rows, i + 1, Len(tab.rows))

TabEdit(rows) ==
  /\ Edit
  /\ tab' = [rows |-> rows, dirty |-> TRUE]
  /\ UNCHANGED <<file, parsed, form, dialog, bulk, Background>>

OnAdd == \E t \in NewTriggers :
  TabEdit(Append(tab.rows, t)) /\ UNCHANGED history

OnDelete == \E i \in DOMAIN tab.rows :
  TabEdit(Deleted(i)) /\ promoted' = promoted \ {tab.rows[i]} /\ UNCHANGED written

OnTypeToggled == \E type \in {tab.rows[i].types[1] : i \in DOMAIN tab.rows}, on \in BOOLEAN :
  LET hit == {i \in DOMAIN tab.rows : tab.rows[i].types = <<type>>}
  IN  /\ TabEdit([i \in DOMAIN tab.rows |->
                    IF i \in hit THEN [tab.rows[i] EXCEPT !.enabled = on] ELSE tab.rows[i]])
      /\ promoted' = promoted \ {tab.rows[i] : i \in hit}
      /\ UNCHANGED written

OnMove == \E i \in DOMAIN tab.rows, type \in {t.types[1] : t \in NewTriggers} :
  /\ tab.rows[i].types # <<type>>
  /\ \/ TabEdit([tab.rows EXCEPT ![i].types = <<type>>]) /\ promoted' = promoted \ {tab.rows[i]}
     \/ TabEdit(Append(tab.rows, [tab.rows[i] EXCEPT !.types = <<type>>])) /\ UNCHANGED promoted
  /\ UNCHANGED written

OnCellEdited == \E i \in DOMAIN tab.rows, text \in Incoming \cup {<<>>} :
  /\ tab.rows[i].sample # text
  /\ TabEdit([tab.rows EXCEPT ![i].sample = text])
  /\ promoted' = promoted \ {tab.rows[i]}
  /\ UNCHANGED written

(* A bulk import is classified by a worker thread; its progress dialog can *)
(* be cancelled, which does not stop the worker.                           *)
OnBulkImport ==
  /\ Edit /\ ~bulk /\ bulk' = TRUE
  /\ UNCHANGED <<file, parsed, tab, form, dialog, history, Background>>

OnBulkDone == \E t \in NewTriggers :
  /\ bulk /\ AtRest /\ bulk' = FALSE
  /\ tab' = [rows |-> Append(tab.rows, t), dirty |-> TRUE]
  /\ UNCHANGED <<file, parsed, form, dialog, history, edits, Background>>

(* _save(): the file is read again and only its triggers are replaced.     *)
TabSaved == F!Saved([file EXCEPT !.triggers = tab.rows])

TabSave ==
  /\ AtRest /\ tab.dirty
  /\ Write(TabSaved)
  /\ tab' = [tab EXCEPT !.dirty = FALSE]
  /\ UNCHANGED <<form, dialog, bulk, history, edits, Background>>

(* Revert, a change of stack or profile, the end of the wizard.            *)
TabLoad ==
  /\ AtRest /\ tab # Rows(file)
  /\ tab' = Rows(file)
  /\ UNCHANGED <<file, parsed, form, dialog, bulk, history, edits, Background>>

(* The Editor tab keeps every field it shows as text and writes them all.  *)
FormLoad ==
  /\ AtRest /\ form # Fields(file)
  /\ form' = Fields(file)
  /\ UNCHANGED <<file, parsed, tab, dialog, bulk, history, edits, Background>>

FormEdit == \E text \in Incoming :
  /\ Edit
  /\ form.noise # {} /\ text \notin form.noise
  /\ form' = [noise |-> form.noise \cup {text}, edited |-> TRUE]
  /\ UNCHANGED <<file, parsed, tab, dialog, bulk, history, Background>>

FormSaved ==
  F!Saved([file EXCEPT !.noise = IF form.noise = {} THEN @ ELSE form.noise, !.lists = "text"])

FormSave ==
  /\ Edit
  /\ Write(FormSaved)
  /\ form' = [form EXCEPT !.edited = FALSE]
  /\ UNCHANGED <<tab, dialog, bulk, history, Background>>

(* The generator replaces the file; only the instrument lists survive.     *)
GenerateProfile == \E triggers \in Generated :
  /\ Edit
  /\ Write(F!Saved([F!Empty EXCEPT !.triggers = triggers, !.lists = file.lists]))
  /\ form' = Fields(file') /\ tab' = Rows(file')
  /\ promoted' = {}
  /\ UNCHANGED <<dialog, bulk, written, Background>>

-----------------------------------------------------------------------------
(* _on_promote(): the row is read, a dialog asks for the trigger, the file *)
(* is written, the row deleted, the Triggers tab reloaded.                 *)
PromoteOpen == \E i \in DOMAIN queue :
  /\ Edit
  /\ dialog' = [step |-> "promote", row |-> queue[i], id |-> 0]
  /\ UNCHANGED <<file, parsed, tab, form, bulk, history, Background>>

PromotedTrigger(row, type) ==
  [enabled |-> TRUE, phrase |-> row.text, types |-> <<type>>, sample |-> row.text, context |-> {}]

(* Mutant: the row goes although the write has failed.                    *)
PromoteWriteOrNot ==
  /\ dialog.step = "promote"
  /\ \/ \E type \in {dialog.row.type} \cup {t.types[1] : t \in NewTriggers} :
          LET new == PromotedTrigger(dialog.row, type)
          IN  /\ Write(F!Saved([file EXCEPT !.triggers = Append(F!LoadTriggers(file), new)]))
              /\ promoted' = promoted \cup {new}
     \/ UNCHANGED <<file, parsed, promoted>>
  /\ dialog' = [dialog EXCEPT !.step = "drop"]
  /\ UNCHANGED <<tab, form, bulk, written, edits, Background>>

(* A write that fails leaves the row where it is.                          *)
PromoteWrite ==
  /\ dialog.step = "promote"
  /\ \/ \E type \in {dialog.row.type} \cup {t.types[1] : t \in NewTriggers} :
          LET new == PromotedTrigger(dialog.row, type)
          IN  /\ Write(F!Saved([file EXCEPT !.triggers = Append(F!LoadTriggers(file), new)]))
              /\ dialog' = [dialog EXCEPT !.step = "drop"]
              /\ promoted' = promoted \cup {new}
     \/ dialog' = Quiet /\ UNCHANGED <<file, parsed, promoted>>
  /\ UNCHANGED <<tab, form, bulk, written, edits, Background>>

Without(text) == SelectSeq(queue, LAMBDA r : r.text # text)

(* Mutant: the Triggers tab keeps the rows it had.                         *)
PromoteDropAlone ==
  /\ dialog.step = "drop"
  /\ queue' = Without(dialog.row.text)
  /\ dialog' = Quiet
  /\ UNCHANGED <<file, parsed, corpus, arrivals, bot, tab, form, bulk, history, edits, mishaps>>

PromoteDrop ==
  /\ dialog.step = "drop"
  /\ queue' = Without(dialog.row.text)
  /\ dialog' = Quiet
  /\ tab' = Rows(file)
  /\ UNCHANGED <<file, parsed, corpus, arrivals, bot, form, bulk, history, edits, mishaps>>

DismissRow == \E i \in DOMAIN queue :
  /\ Edit
  /\ queue' = Without(queue[i].text)
  /\ UNCHANGED <<file, parsed, corpus, arrivals, bot, panel, history, mishaps>>

(* accept_suggestion(): the rule is written, then the status.  The status  *)
(* the row has by now is not looked at.                                    *)
AcceptOpen == \E id \in DOMAIN proposals :
  /\ Edit /\ proposals[id].status = "proposed"
  /\ dialog' = [step |-> "accept", row |-> None, id |-> id]
  /\ UNCHANGED <<file, parsed, tab, form, bulk, history, Background>>

AcceptWrite ==
  /\ dialog.step = "accept"
  /\ \/ /\ Write(F!Applied(file, proposals[dialog.id]))
        /\ dialog' = [dialog EXCEPT !.step = "status"]
        /\ written' = written \cup {dialog.id}
     \/ dialog' = Quiet /\ UNCHANGED <<file, parsed, written>>
  /\ UNCHANGED <<tab, form, bulk, promoted, edits, Background>>

AcceptStatus ==
  /\ dialog.step = "status"
  /\ proposals' = [proposals EXCEPT ![dialog.id].status = "accepted"]
  /\ dialog' = Quiet
  /\ UNCHANGED <<file, listener, mark, tab, form, bulk, history, edits, mishaps>>

DismissSuggestion == \E id \in DOMAIN proposals :
  /\ Edit /\ proposals[id].status = "proposed"
  /\ proposals' = [proposals EXCEPT ![id].status = "dismissed"]
  /\ UNCHANGED <<file, listener, mark, panel, history, mishaps>>

(* The panel is closed or dies; it comes back with what is on disk.        *)
PanelRestart ==
  /\ mishaps < MaxMishaps /\ mishaps' = mishaps + 1
  /\ tab' = Rows(file) /\ form' = Fields(file)
  /\ dialog' = Quiet /\ bulk' = FALSE
  /\ UNCHANGED <<file, listener, bot, history, edits>>

-----------------------------------------------------------------------------
TabNext == OnAdd \/ OnDelete \/ OnTypeToggled \/ OnMove \/ OnCellEdited
           \/ OnBulkImport \/ OnBulkDone \/ TabSave \/ TabLoad
FormNext == FormLoad \/ FormEdit \/ FormSave \/ GenerateProfile
QueueNext == PromoteOpen \/ PromoteWrite \/ PromoteDrop \/ DismissRow
ProposalNext == AcceptOpen \/ AcceptWrite \/ AcceptStatus \/ DismissSuggestion

Next == Arrive \/ LearnTick \/ BotRestart
        \/ TabNext \/ FormNext \/ QueueNext \/ ProposalNext \/ PanelRestart

Spec == Init /\ [][Next]_vars

(* The bot's loop goes on.                                                 *)
FairSpec == Spec /\ WF_vars(LearnTick)

-----------------------------------------------------------------------------
(* A trigger promoted from the queue stays in the file until the operator  *)
(* deletes or changes it or generates a new profile.  Another tab, which   *)
(* writes back rows it loaded earlier, does not write it away              *)
(* (profile_view.py:280-289).                                              *)
PromotedStays == promoted \subseteq ToSet(F!LoadTriggers(file))

(* ... and from the next message on the listener goes by it: a message it  *)
(* answers in every situation is not queued for promotion once more        *)
(* (trigger_matcher.py:21-25).                                             *)
PromotedHeeded ==
  [][\A row \in ToSet(queue') \ ToSet(queue), t \in promoted :
       t.sample = row.text
       => \E ctx \in Situations : Reads(row.text, <<t>>, ctx, FALSE) = M!NoMatch]_vars

(* What the operator decides is on file before it is struck off a list: a  *)
(* proposal counts as accepted once its rule is written, and a queued      *)
(* message goes for a trigger that is in the file, by dismissal, or as the *)
(* oldest of a full queue (unmatched_view.py:193-230, suggestions_logic.py *)
(* :110-150).                                                              *)
DecidedOnFile ==
  [][/\ \A id \in DOMAIN proposals :
          proposals[id].status # "accepted" /\ proposals'[id].status = "accepted"
          => id \in written
     /\ \A row \in ToSet(queue) \ ToSet(queue') :
          \/ arrivals' # arrivals /\ row = queue[1] /\ Len(queue) = QueueCap
          \/ dialog.step = "drop" /\ \E t \in ToSet(F!LoadTriggers(file)) : t.sample = row.text
          \/ arrivals' = arrivals /\ dialog.step = "none"]_vars

(* The Test pane of the Triggers tab says what the listener would do with  *)
(* these triggers: same actions, same silence (trigger_matcher.py:1110-    *)
(* 1115).  It does when the actions can be built (symbol, open side).      *)
DryRunTells ==
  \A text \in Incoming, ctx \in Simulated :
    LET rules == M!RulesOf(tab.rows)
        dry   == M!TestMatch(text, rules, ctx, Symbol, Scores(text, rules), 1)
        live  == Reads(text, tab.rows, ctx, TRUE)
    IN  /\ dry.actions = live.actions
        /\ dry.suppressed <=> live.layer = "deterministic_ignore"

(* What the Triggers tab promises of the file and of the listener.         *)
TabSound == PromotedStays /\ DryRunTells

(* A full batch is learned from: unless the run fails or the bot restarts, *)
(* every sample kept that a rule could be about ends up in a proposal      *)
(* (learning_loop.py:27-51, 131-139).                                      *)
Due == mark # None /\ CountSince(mark) >= BatchN
Promising ==
  {corpus[i].text : i \in {j \in DOMAIN corpus :
     \/ corpus[j].category \in {"ignore", "context"}
     \/ SuggestedActionType(corpus[j].types) # None}}
Learned == UNION {ToSet(proposals[i].texts) : i \in DOMAIN proposals}
BatchLearned == Due ~> Promising \subseteq Learned \/ mishaps > 0

(* The Editor tab changes the fields the operator has changed.             *)
FormWritesEdits ==
  [][FormSave => /\ file'.lists = file.lists
                 /\ form.edited \/ file'.noise = file.noise]_vars
=============================================================================
