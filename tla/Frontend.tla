------------------------------- MODULE Frontend -------------------------------
(***************************************************************************)
(* One browser tab of the Streamlit app (frontend/app.py) against the      *)
(* backend.  Streamlit runs the script from top to bottom on every event;  *)
(* what outlives a run is st.session_state and the uploader's file.  A run *)
(* blocks in requests.post, whose answer may not come in time, while the   *)
(* backend goes on with the request and carries it out later.              *)
(*                                                                         *)
(* The backend is the abstract one: each of its requests takes effect on   *)
(* SessionStore at once (SessionBackend shows that it does), a query reads *)
(* its session when it starts and records its turn when it ends.           *)
(***************************************************************************)
EXTENDS Naturals, Sequences, FiniteSets

CONSTANTS
  Requests,    \* the POSTs of the app, bounding its runs; see SessionStore for what they name
  Files,       \* the files the user uploads
  FileKey,     \* name and size of a file: what the app tells files apart by
  Nothing      \* Python's None

ASSUME NamesAssumption == Nothing \notin Requests \cup Files
ASSUME FileKeyAssumption == DOMAIN FileKey = Files /\ \A f \in Files : FileKey[f] # Nothing

VARIABLES
  script,      \* where the run of the script is, "idle" between runs
  waiting,     \* the request that the script waits for
  widget,      \* the file in st.file_uploader
  asked,       \* st.chat_input has a query in this run
  cleared,     \* the "Clear session" button was pressed for this run
  ui,          \* st.session_state
  post,        \* per request: what was sent
  progress,    \* per request: how far the backend is with it
  given_up,    \* the requests whose answer the app did not wait for
  sessions,    \* the backend's sessions (SessionStore)
  answer_from  \* per query: the corpus its turn worked on

vars == <<script, waiting, widget, asked, cleared, ui, post, progress, given_up, sessions,
          answer_from>>

Store == INSTANCE SessionStore WITH redis <- sessions

ASSUME NothingAssumption == Nothing \notin Store!SessionData

NoPost == [kind |-> Nothing, session |-> Nothing, file |-> Nothing]

\* chat_history: the turns on the page, each with the dataset that the page named then.
NewUi == [session_id |-> Nothing, corpus_info |-> Nothing, uploaded_file_key |-> Nothing,
          chat_history |-> <<>>]

Init ==
  /\ script = "idle" /\ waiting = Nothing /\ widget = Nothing
  /\ asked = FALSE /\ cleared = FALSE /\ ui = NewUi
  /\ post = [r \in Requests |-> NoPost] /\ progress = [r \in Requests |-> "unused"]
  /\ given_up = {} /\ sessions = [s \in Requests |-> Nothing]
  /\ answer_from = [r \in Requests |-> Nothing]

Unused == {r \in Requests : progress[r] = "unused"}

\* Bound: a run sends at most two requests, and the model has no more than Requests.
MayRun == script = "idle" /\ Cardinality(Unused) >= 2

BackendUnchanged == UNCHANGED <<post, progress, sessions, answer_from>>

-----------------------------------------------------------------------------
(* The user: every event starts a run of the script.                       *)

SelectFile ==
  /\ MayRun /\ script' = "sidebar" /\ \E f \in Files : widget' = f
  /\ UNCHANGED <<waiting, asked, cleared, ui, given_up>> /\ BackendUnchanged

RemoveFile ==
  /\ MayRun /\ script' = "sidebar" /\ widget # Nothing /\ widget' = Nothing
  /\ UNCHANGED <<waiting, asked, cleared, ui, given_up>> /\ BackendUnchanged

\* The chat input is on the page only when there is a dataset.
Ask ==
  /\ MayRun /\ script' = "sidebar" /\ ui.corpus_info # Nothing /\ asked' = TRUE
  /\ UNCHANGED <<waiting, widget, cleared, ui, given_up>> /\ BackendUnchanged

PressClear ==
  /\ MayRun /\ script' = "sidebar" /\ ui.session_id # Nothing /\ cleared' = TRUE
  /\ UNCHANGED <<waiting, widget, asked, ui, given_up>> /\ BackendUnchanged

\* A hint is edited: the script runs for nothing else.
EditHint ==
  /\ MayRun /\ script' = "sidebar"
  /\ UNCHANGED <<waiting, widget, asked, cleared, ui, given_up>> /\ BackendUnchanged

-----------------------------------------------------------------------------
(* The script                                                              *)

Send(kind, file) ==
  \E r \in Unused :
    /\ post' = [post EXCEPT ![r] = [kind |-> kind, session |-> ui.session_id, file |-> file]]
    /\ progress' = [progress EXCEPT ![r] = "sent"] /\ waiting' = r
    /\ UNCHANGED <<sessions, answer_from>>

\* Mutant of NewFile: only the first file is uploaded.
FirstFile == widget # Nothing /\ ui.uploaded_file_key = Nothing

NewFile == widget # Nothing /\ FileKey[widget] # ui.uploaded_file_key

UploadFile ==
  /\ script = "sidebar" /\ NewFile /\ script' = "uploading" /\ Send("upload", widget)
  /\ UNCHANGED <<widget, asked, cleared, ui, given_up>>

NothingToUpload ==
  /\ script = "sidebar" /\ ~NewFile /\ script' = "settings"
  /\ UNCHANGED <<waiting, widget, asked, cleared, ui, given_up>> /\ BackendUnchanged

\* The session that an upload went to, which its answer names.
SessionOf(r) == IF post[r].session = Nothing THEN r ELSE post[r].session

\* Mutants of Adopted: the file kept in place of its key, and a dataset named once and for all.
AdoptedWithFile(r) ==
  [ui EXCEPT !.session_id = SessionOf(r), !.corpus_info = r, !.uploaded_file_key = post[r].file]
AdoptedOnce(r) ==
  [ui EXCEPT !.session_id = SessionOf(r), !.uploaded_file_key = FileKey[post[r].file],
             !.corpus_info = IF @ = Nothing THEN r ELSE @]

\* st.session_state after a 200: three writes, taken as one step like those of Cleared.  A
\* rerun asked for during the POST stops the run before the first of them (Interrupted); one
\* asked for in between them is not modelled.
Adopted(r) ==
  [ui EXCEPT !.session_id = SessionOf(r), !.corpus_info = r,
             !.uploaded_file_key = FileKey[post[r].file]]

UploadAnswered ==
  /\ script = "uploading" /\ progress[waiting] = "done" /\ ui' = Adopted(waiting)
  /\ script' = "settings" /\ waiting' = Nothing
  /\ UNCHANGED <<widget, asked, cleared, given_up>> /\ BackendUnchanged

\* Mutant of Cleared: the chat stays.
ClearedButChat == [NewUi EXCEPT !.chat_history = ui.chat_history]

\* _reset_session; the uploader keeps its file.
Cleared == NewUi

Clear ==
  /\ script = "settings" /\ cleared /\ ui.session_id # Nothing
  /\ ui' = Cleared /\ cleared' = FALSE /\ asked' = FALSE
  /\ script' = "sidebar"   \* st.rerun()
  /\ UNCHANGED <<waiting, widget, given_up>> /\ BackendUnchanged

ShowChat ==
  /\ script = "settings" /\ ~(cleared /\ ui.session_id # Nothing)
  /\ IF asked /\ ui.corpus_info # Nothing
     THEN script' = "asking" /\ Send("query", Nothing)
     ELSE script' = "idle" /\ UNCHANGED waiting /\ BackendUnchanged
  /\ asked' = FALSE /\ cleared' = FALSE
  /\ UNCHANGED <<widget, ui, given_up>>

QueryAnswered ==
  /\ script = "asking" /\ progress[waiting] = "done"
  /\ ui' = [ui EXCEPT !.chat_history = Append(@, [turn |-> waiting, dataset |-> ui.corpus_info])]
  /\ script' = "idle" /\ waiting' = Nothing
  /\ UNCHANGED <<widget, asked, cleared, given_up>> /\ BackendUnchanged

\* Any status but 200, a lost connection, or a timeout: an error on the page, and on.
AnswerMissing ==
  /\ waiting # Nothing
  /\ script' = (IF script = "uploading" THEN "settings" ELSE "idle") /\ waiting' = Nothing
  /\ given_up' = IF progress[waiting] = "rejected" THEN given_up ELSE given_up \cup {waiting}
  /\ UNCHANGED <<widget, asked, cleared, ui>> /\ BackendUnchanged

\* Streamlit stops a run in favour of the next one when the user does something meanwhile.
Interrupted ==
  /\ waiting # Nothing /\ script' = "idle" /\ waiting' = Nothing
  /\ given_up' = given_up \cup {waiting} /\ asked' = FALSE /\ cleared' = FALSE
  /\ UNCHANGED <<widget, ui>> /\ BackendUnchanged

Script == \/ UploadFile \/ NothingToUpload \/ UploadAnswered \/ Clear
          \/ ShowChat \/ QueryAnswered \/ AnswerMissing

-----------------------------------------------------------------------------
(* The backend                                                             *)

AppUnchanged == UNCHANGED <<script, waiting, widget, asked, cleared, ui, post, given_up>>

HandleUpload(r) ==
  /\ progress[r] = "sent" /\ post[r].kind = "upload"
  /\ sessions' = [sessions EXCEPT ![SessionOf(r)] =
                    Store!WithCorpus(IF post[r].session = Nothing THEN Store!NewSession ELSE @, r, r)]
  /\ progress' = [progress EXCEPT ![r] = "done"]
  /\ AppUnchanged /\ UNCHANGED answer_from

StartQuery(r) ==
  /\ progress[r] = "sent" /\ post[r].kind = "query"
  /\ answer_from' = [answer_from EXCEPT ![r] = sessions[post[r].session].corpus_ref]
  /\ progress' = [progress EXCEPT ![r] = "running"]
  /\ AppUnchanged /\ UNCHANGED sessions

\* Mutant of FinishQuery: the answer leaves before its turn is recorded.
AnswerFirst(r) ==
  /\ progress[r] = "running"
  /\ progress' = [progress EXCEPT ![r] = "done"]
  /\ AppUnchanged /\ UNCHANGED <<answer_from, sessions>>

FinishQuery(r) ==
  /\ progress[r] = "running"
  /\ sessions' = [sessions EXCEPT ![post[r].session] = Store!WithTurn(@, r)]
  /\ progress' = [progress EXCEPT ![r] = "done"]
  /\ AppUnchanged /\ UNCHANGED answer_from

\* 400, 404, 429 or 500, without an effect on the session.
Reject(r) ==
  /\ progress[r] \in {"sent", "running"} /\ progress' = [progress EXCEPT ![r] = "rejected"]
  /\ AppUnchanged /\ UNCHANGED <<sessions, answer_from>>

-----------------------------------------------------------------------------

OutOfRequests == script = "idle" /\ ~MayRun /\ UNCHANGED vars

Next ==
  \/ SelectFile \/ RemoveFile \/ Ask \/ PressClear \/ EditHint
  \/ Script \/ Interrupted
  \/ \E r \in Requests : HandleUpload(r) \/ StartQuery(r) \/ FinishQuery(r) \/ Reject(r)
  \/ OutOfRequests

Spec == Init /\ [][Next]_vars

-----------------------------------------------------------------------------
(* Properties                                                              *)

Maybe == Requests \cup {Nothing}

TypeOK ==
  /\ script \in {"idle", "sidebar", "uploading", "settings", "asking"} /\ waiting \in Maybe
  /\ widget \in Files \cup {Nothing} /\ asked \in BOOLEAN /\ cleared \in BOOLEAN
  /\ ui \in [session_id : Maybe, corpus_info : Maybe,
             uploaded_file_key : {FileKey[f] : f \in Files} \cup {Nothing},
             chat_history : Seq([turn : Requests, dataset : Requests])]
  /\ post \in [Requests -> [kind : {"upload", "query", Nothing}, session : Maybe,
                            file : Files \cup {Nothing}]]
  /\ progress \in [Requests -> {"unused", "sent", "running", "done", "rejected"}]
  /\ given_up \subseteq Requests /\ sessions \in [Requests -> Store!SessionData \cup {Nothing}]
  /\ answer_from \in [Requests -> Maybe]

(* The four entries of the session state belong together: a session, its    *)
(* dataset, the key of the dataset's file and only then turns; and the      *)
(* dataset is one that was uploaded to this very session.                   *)
SessionStateConsistent ==
  IF ui.session_id = Nothing THEN ui = NewUi
  ELSE /\ ui.corpus_info # Nothing /\ SessionOf(ui.corpus_info) = ui.session_id
       /\ ui.uploaded_file_key = FileKey[post[ui.corpus_info].file]

Position(history, t) == {i \in DOMAIN history : history[i] = [role |-> "user", turn |-> t]}

(* What the page shows is on record: the backend's history of the session   *)
(* has every turn of the page, in the order of the page, whatever requests  *)
(* that the app gave up on are carried out in between.                      *)
ShownTurnsAreRecorded ==
  \A i \in DOMAIN ui.chat_history :
    LET history == sessions[ui.session_id].chat_history
        recorded(k) == Position(history, ui.chat_history[k].turn)
    IN  /\ recorded(i) # {}
        /\ \A j \in 1..(i - 1) : \A p \in recorded(i), q \in recorded(j) : q < p

Failed(f) == \E r \in Requests : /\ post[r].kind = "upload" /\ post[r].file = f
                                 /\ r \in given_up \/ progress[r] = "rejected"

(* Between runs the dataset on the page is the file in the uploader, except *)
(* after an upload of it failed, and for files of the same name and size.   *)
DatasetIsWidgetsFile ==
  script = "idle" /\ widget # Nothing /\ ui.corpus_info # Nothing
    /\ post[ui.corpus_info].file # widget =>
      Failed(widget) \/ FileKey[post[ui.corpus_info].file] = FileKey[widget]

(* A replacement of the dataset is "explicit, not silent (the caller is     *)
(* expected to tell the user this happened)": every answer is about the     *)
(* dataset that the page names.  The code violates it when the answer to a  *)
(* replacing upload is lost and the user goes on with the earlier file.     *)
ReplacementIsShown ==
  \A i \in DOMAIN ui.chat_history :
    answer_from[ui.chat_history[i].turn] = ui.chat_history[i].dataset

(* How far that goes: an answer about another dataset than the page names   *)
(* is about one whose upload the app gave up on.                            *)
MismatchNeedsLostUpload ==
  \A i \in DOMAIN ui.chat_history :
    LET turn == ui.chat_history[i]
    IN  answer_from[turn.turn] \in {turn.dataset} \cup given_up

-----------------------------------------------------------------------------
(* The inductive invariant behind the safety properties                    *)

Pending(r) == progress[r] \in {"sent", "running"}

\* A request is for a session that exists; the backend works only on what the app waits
\* for or gave up on.
PostsInv ==
  \A r \in Requests : progress[r] # "unused" =>
    /\ post[r].kind \in {"upload", "query"} /\ (progress[r] = "running" => post[r].kind = "query")
    /\ post[r].kind = "upload" => post[r].file \in Files
    /\ post[r].kind = "query" => post[r].session # Nothing
    /\ post[r].session # Nothing => sessions[post[r].session] # Nothing
    /\ Pending(r) => r = waiting \/ r \in given_up

\* Sessions, corpora and turns are in the backend exactly when their request is done.
SessionsInv ==
  /\ \A s \in Requests : sessions[s] # Nothing =>
        /\ progress[s] = "done" /\ post[s].kind = "upload" /\ post[s].session = Nothing
        /\ sessions[s].corpus_ref \in Requests /\ progress[sessions[s].corpus_ref] = "done"
        /\ \A i \in DOMAIN sessions[s].chat_history : progress[sessions[s].chat_history[i].turn] = "done"
  /\ \A r \in Requests : progress[r] = "done" =>
        /\ post[r].kind = "upload" => sessions[SessionOf(r)] # Nothing
        /\ post[r].kind = "query" => Position(sessions[post[r].session].chat_history, r) # {}

\* What the page names and shows comes from requests of its session that are done.
PageInv ==
  /\ SessionStateConsistent
  /\ ui.session_id # Nothing => progress[ui.corpus_info] = "done" /\ post[ui.corpus_info].kind = "upload"
  /\ \A i \in DOMAIN ui.chat_history :
       LET t == ui.chat_history[i].turn
       IN  progress[t] = "done" /\ post[t].kind = "query" /\ post[t].session = ui.session_id

\* What the run of the script waits for; what it waited for was sent.
WaitInv ==
  /\ \A r \in given_up : progress[r] # "unused"
  /\ script \in {"uploading", "asking"} <=> waiting # Nothing
  /\ waiting # Nothing => progress[waiting] # "unused" /\ post[waiting].session = ui.session_id
  /\ script = "uploading" => post[waiting].kind = "upload" /\ post[waiting].file = widget
  /\ script = "asking" => post[waiting].kind = "query"

\* The session's corpus is the page's dataset, or that of an upload on its way or given up;
\* once an upload is done, the page's dataset is none of them.
DatasetInv ==
  /\ ui.session_id # Nothing =>
       \/ sessions[ui.session_id].corpus_ref \in {ui.corpus_info} \cup given_up
       \/ script = "uploading" /\ sessions[ui.session_id].corpus_ref = waiting
  /\ script = "uploading" /\ progress[waiting] = "done" =>
       sessions[SessionOf(waiting)].corpus_ref \in {waiting} \cup given_up
  /\ script = "asking" /\ progress[waiting] \in {"running", "done"} =>
       answer_from[waiting] \in {ui.corpus_info} \cup given_up
  /\ MismatchNeedsLostUpload

\* The turn that the script waits for comes after every turn of the page.
OrderInv ==
  /\ ShownTurnsAreRecorded
  /\ script = "asking" =>
       \A i \in DOMAIN ui.chat_history :
         \A p \in Position(sessions[ui.session_id].chat_history, ui.chat_history[i].turn),
            q \in Position(sessions[ui.session_id].chat_history, waiting) : p < q

\* From the uploader's part of the script on, the page's dataset is the uploader's file.
WidgetInv ==
  script \in {"idle", "settings", "asking"} /\ widget # Nothing /\ ui.corpus_info # Nothing
    /\ post[ui.corpus_info].file # widget =>
      Failed(widget) \/ FileKey[post[ui.corpus_info].file] = FileKey[widget]

IInv == TypeOK /\ PostsInv /\ SessionsInv /\ PageInv /\ WaitInv /\ DatasetInv /\ OrderInv /\ WidgetInv
=============================================================================
