-------------------------------- MODULE SignIn --------------------------------
(* The three dialogs that talk to Telegram through TelegramSession, one open   *)
(* at a time (they are modal): Add Account (gui/views/v2_config_view.py), the   *)
(* channel picker of Add Channel (same file) and the login pages of the setup   *)
(* wizard (gui/windows/telegram_wizard.py).  The operator clicks while answers  *)
(* are under way; MaxClicks bounds the clicks that make calls, and those on Back. *)
(* Names, API credentials, validation of typed text and the wizard's pages      *)
(* before the phone number keep nothing the properties need.                   *)
EXTENDS TelegramSession

CONSTANTS Account,    \* the accounts of the routing file, one per phone at most
          InitialFiles, \* credential files and databases the picker may find
          MaxClicks   \* bound: clicks, by dialog

VARIABLES kind,    \* which dialog is open
          files,   \* what LoadAccountCredentials reads
          ui,      \* its fields
          saved,   \* what it has saved
          clicks   \* bounded

dialogVars == <<source, stored, unwritten, client, requests, running, inbox, kind, files, ui, saved, clicks>>

\* the files are those the program writes, and the clicks are bounded
ASSUME DialogAssumption ==
    /\ Account # {} /\ InitialFiles # {}
    /\ \A f \in InitialFiles :
         f \in [phone: [Account -> PhoneOrNone], sidecar: [Account -> Session],
               dbs: SUBSET [serves: Account \union {None}, phone: PhoneOrNone, session: Session]]
    /\ MaxClicks \in [{"account", "picker", "wizard"} -> Nat]

Nothing == [phone |-> None, session |-> None, chat |-> None, me |-> None]

\* phone: the field; asked: the wizard's data.phone; list: whose dialogs the list shows; chat: whose dialog is
\* picked; all: the list that the wizard's search picks from; told: the picker shows a complaint
UI == [page: {"basics", "awaiting_code", "password", "done", "opening", "picking",
              "credentials", "phone", "code", "dialogs", "services", "finish", "closed"},
       locked: BOOLEAN, password: BOOLEAN, sent: BOOLEAN, signed: BOOLEAN, told: BOOLEAN,
       phone: Phone, asked: PhoneOrNone, hash: PhoneOrNone, blob: Session,
       account: Account, all: PhoneOrNone, list: PhoneOrNone, chat: PhoneOrNone, me: PhoneOrNone]

DialogTypeOK ==
    /\ SessionTypeOK
    /\ kind \in {"account", "picker", "wizard"}
    /\ ui \in UI
    /\ saved \in [phone: PhoneOrNone, session: Session, chat: PhoneOrNone, me: PhoneOrNone]
    /\ clicks \in 0..MaxClicks[kind]

FirstPage == [account |-> "basics", picker |-> "opening", wizard |-> "credentials"]

------------------------------------------------------------------------------
(* Credentials of an account, for the picker (gui/services/account_credentials.py). *)
(* An account's files win; then a database one of its channels leads to, one    *)
(* whose phone is the account's, and at last any that holds a session.          *)

DestinationDbForAccount(a) ==
    LET at(pass) == {d \in files.dbs : CASE pass = 1 -> d.serves = a
                                         [] pass = 2 -> d.phone # None /\ d.phone = files.phone[a]
                                         [] pass = 3 -> d.session # None}
    IN  CASE at(1) # {} -> at(1) [] at(1) = {} /\ at(2) # {} -> at(2) [] OTHER -> at(3)

\* the session of its file, or of the database found, or none
LoadAccountCredentials(a) ==
    IF files.sidecar[a] # None THEN {files.sidecar[a]}
    ELSE LET dbs == DestinationDbForAccount(a)
         IN  IF dbs = {} THEN {None} ELSE {d.session : d \in dbs}

------------------------------------------------------------------------------
Click == clicks < MaxClicks[kind] /\ clicks' = clicks + 1
Open == ui.page # "closed"
Reply(sig) == inbox # <<>> /\ Head(inbox).sig = sig /\ inbox' = Tail(inbox) /\ clicks' = clicks
Of == Head(inbox).of
Wait == UNCHANGED <<source, requests>>          \* the handler calls nothing
Still == UNCHANGED <<stored, unwritten, client, running, kind, files>>

\* the picker clears what it shows and connects as the account
PickerLoad(a, blob) ==
    /\ ui' = [ui EXCEPT !.page = "picking", !.account = a, !.list = None, !.chat = None, !.told = (blob = None)]
    /\ IF blob = None THEN Wait ELSE Connect(blob, FALSE)

Blank(page) ==
    [page |-> page, locked |-> FALSE, password |-> FALSE, sent |-> FALSE, signed |-> FALSE, told |-> FALSE,
     phone |-> CHOOSE p \in Phone : TRUE, asked |-> None, hash |-> None, blob |-> None,
     account |-> CHOOSE a \in Account : TRUE, all |-> None, list |-> None, chat |-> None, me |-> None]

\* only the wizard has a database, only the picker reads credentials
DialogInit ==
    /\ SessionInit
    /\ kind \in {"account", "picker", "wizard"}
    /\ kind # "wizard" => stored = None
    /\ files \in IF kind = "picker" THEN InitialFiles ELSE {CHOOSE f \in InitialFiles : TRUE}
    /\ ui = Blank(FirstPage[kind])
    /\ saved = Nothing
    /\ clicks = 0

\* the dialog goes away and its worker is told to stop, whatever is still under way
Gone ==
    /\ ui' = Blank("closed")
    /\ requests' = <<>> /\ running' = <<>> /\ inbox' = <<>> /\ client' = None
    /\ UNCHANGED <<source, stored, unwritten, kind, files, clicks>>

------------------------------------------------------------------------------
(* Add Account.                                                                *)

AccountEdit(p) ==
    /\ kind = "account" /\ Open /\ ~ui.locked /\ p # ui.phone
    /\ ui' = [ui EXCEPT !.phone = p]
    /\ Wait /\ Still /\ UNCHANGED <<inbox, saved, clicks>>

SubmitBasics ==
    /\ kind = "account" /\ ui.page = "basics" /\ ~ui.locked /\ Click
    /\ ui' = [ui EXCEPT !.locked = TRUE]
    /\ Connect(None, FALSE)
    /\ Still /\ UNCHANGED <<inbox, saved>>

SubmitCode ==
    /\ kind = "account" /\ ui.page = "awaiting_code" /\ Click
    /\ Submit(<<Request("sign_in", ui.phone, ui.hash)>>)
    /\ Still /\ UNCHANGED <<ui, inbox, saved, source>>

SubmitPassword ==
    /\ kind = "account" /\ ui.page = "password" /\ Click
    /\ Submit(<<Call("password")>>)
    /\ Still /\ UNCHANGED <<ui, inbox, saved, source>>

WhoAndWhat == <<Call("me"), Call("snapshot")>>

Unlocked(u) == [u EXCEPT !.locked = FALSE, !.page = "basics"]

AccountConnected ==
    /\ \/ Reply("authorized") /\ Submit(WhoAndWhat)
       \/ Reply("unauthorized") /\ Submit(<<Request("send_code", ui.phone, None)>>)
    /\ UNCHANGED <<ui, source>>

AccountCodeSent ==
    /\ Reply("code_sent")
    /\ ui' = [ui EXCEPT !.hash = Of, !.page = "awaiting_code"]
    /\ Wait

AccountPasswordRequired ==
    /\ Reply("password_required")
    /\ ui' = [ui EXCEPT !.page = "password"]
    /\ Wait

AccountSignedIn == Reply("signed_in") /\ Submit(WhoAndWhat) /\ UNCHANGED <<ui, source>>

AccountMe == Reply("me") /\ ui' = [ui EXCEPT !.me = Of] /\ Wait

AccountSnapshot ==
    /\ Reply("snapshot")
    /\ ui' = IF Of = None THEN Unlocked(ui) ELSE [ui EXCEPT !.blob = Of, !.page = "done"]
    /\ Wait

\* changed: an error leaves the fields as they are
AccountErrorShown == Reply("error") /\ UNCHANGED ui /\ Wait

\* changed: any error opens the fields again
AccountErrorUnlocks == Reply("error") /\ ui' = Unlocked(ui) /\ Wait

\* the fields open again only before a code has been sent
AccountError ==
    /\ Reply("error")
    /\ ui' = IF ui.page = "basics" THEN Unlocked(ui) ELSE ui
    /\ Wait

AccountReply ==
    /\ kind = "account" /\ Open
    /\ \/ AccountConnected \/ AccountCodeSent \/ AccountPasswordRequired \/ AccountSignedIn
       \/ AccountMe \/ AccountSnapshot \/ AccountError
    /\ Still /\ UNCHANGED saved

\* OK is enabled by the first session and stays so
AccountOk ==
    /\ kind = "account" /\ Open /\ ui.blob # None
    /\ saved' = [Nothing EXCEPT !.phone = ui.phone, !.session = ui.blob]
    /\ Gone

------------------------------------------------------------------------------
(* Add Channel.                                                                *)

PickerOpened ==
    /\ kind = "picker" /\ ui.page = "opening"
    /\ \E blob \in LoadAccountCredentials(ui.account) : PickerLoad(ui.account, blob)
    /\ Still /\ UNCHANGED <<inbox, saved, clicks>>

AccountChanged(a) ==
    /\ kind = "picker" /\ ui.page = "picking" /\ a # ui.account /\ Click
    /\ \E blob \in LoadAccountCredentials(a) : PickerLoad(a, blob)
    /\ Still /\ UNCHANGED <<inbox, saved>>

PickerConnected ==
    \/ Reply("authorized") /\ Submit(<<Call("dialogs")>>) /\ UNCHANGED <<ui, source>>
    \/ Reply("unauthorized") /\ ui' = [ui EXCEPT !.told = TRUE] /\ Wait

\* whoever's they are; the first channel of the list is picked
PickerDialogs ==
    /\ Reply("dialogs")
    /\ ui' = [ui EXCEPT !.list = Of, !.chat = Of, !.told = FALSE]
    /\ Wait

PickerError == Reply("error") /\ ui' = [ui EXCEPT !.told = TRUE] /\ Wait

PickerReply ==
    /\ kind = "picker" /\ Open
    /\ PickerConnected \/ PickerDialogs \/ PickerError
    /\ Still /\ UNCHANGED saved

\* a channel of the list, or a number typed by hand
PickerOk ==
    /\ kind = "picker" /\ Open
    /\ saved' = [Nothing EXCEPT !.phone = files.phone[ui.account], !.chat = ui.chat]
    /\ Gone

------------------------------------------------------------------------------
(* The wizard.  A page's slots hear the service from the moment it is entered   *)
(* until Back leaves it: the pages before the current one go on listening.      *)

Page == <<"credentials", "phone", "code", "dialogs", "services", "finish">>
At(page) == CHOOSE i \in DOMAIN Page : Page[i] = page
InWizard == kind = "wizard" /\ Open
On(page) == InWizard /\ ui.page = page
Hears(page) == InWizard /\ At(ui.page) >= At(page)

Entered(u, page) ==
    CASE page = "phone"   -> [u EXCEPT !.page = page, !.sent = FALSE]
      [] page = "code"    -> [u EXCEPT !.page = page, !.signed = FALSE, !.password = FALSE]
      [] page = "dialogs" -> [u EXCEPT !.page = page, !.list = None]
      [] OTHER            -> [u EXCEPT !.page = page]

Entering(page) ==
    CASE page = "phone"   -> Connect(None, TRUE)
      [] page = "dialogs" -> Submit(<<Call("me"), Call("dialogs")>>) /\ UNCHANGED source
      [] OTHER            -> Wait

\* changed: the selection is not asked for
ValidatedAnyway(u) == {u}

\* what validatePage leaves, if it lets pass: a channel must be selected in the list
Validated(u) == IF u.page # "dialogs" THEN {u}
                ELSE IF u.list # None THEN {[u EXCEPT !.chat = u.list]} ELSE {}

\* QWizard.next() asks the page to validate; only its button asks whether the page is complete
GoNext(u) ==
    \/ \E v \in Validated(u) :
         /\ At(u.page) < Len(Page)
         /\ LET to == Page[At(u.page) + 1]
            IN  ui' = Entered(v, to) /\ Entering(to)
    \/ u.page \in {"dialogs", "finish"} /\ ui' = u /\ Wait    \* nothing selected, or no page left

Complete == CASE ui.page = "phone" -> ui.sent [] ui.page = "code" -> ui.signed [] OTHER -> TRUE

WizardNext ==
    /\ InWizard /\ ui.page # "finish" /\ Complete
    /\ GoNext(ui)
    /\ Still /\ UNCHANGED <<inbox, saved, clicks>>

WizardBack ==
    /\ InWizard /\ ui.page # "credentials" /\ Click
    /\ ui' = [ui EXCEPT !.page = Page[At(ui.page) - 1]]
    /\ Wait /\ Still /\ UNCHANGED <<inbox, saved>>

WizardEdit(p) ==
    /\ On("phone") /\ p # ui.phone
    /\ ui' = [ui EXCEPT !.phone = p]
    /\ Wait /\ Still /\ UNCHANGED <<inbox, saved, clicks>>

\* the button stays enabled while the code is on its way
SendCode ==
    /\ On("phone") /\ Click
    /\ ui' = [ui EXCEPT !.asked = ui.phone]
    /\ Submit(<<Request("send_code", ui.phone, None)>>)
    /\ Still /\ UNCHANGED <<inbox, saved, source>>

SubmitLogin ==
    /\ On("code") /\ Click
    /\ Submit(<<IF ui.password THEN Call("password") ELSE Request("sign_in", ui.asked, ui.hash)>>)
    /\ Still /\ UNCHANGED <<ui, inbox, saved, source>>

WizardConnected ==
    /\ \/ Reply("authorized") /\ ui' = [ui EXCEPT !.sent = @ \/ Hears("phone")]
       \/ Reply("unauthorized") /\ UNCHANGED ui
    /\ Wait

WizardCodeSent ==
    /\ Reply("code_sent")
    /\ IF Hears("phone") THEN GoNext([ui EXCEPT !.hash = Of, !.sent = TRUE]) ELSE UNCHANGED ui /\ Wait

WizardPasswordRequired ==
    /\ Reply("password_required")
    /\ ui' = [ui EXCEPT !.password = @ \/ Hears("code")]
    /\ Wait

WizardSignedIn ==
    /\ Reply("signed_in")
    /\ IF Hears("code") THEN GoNext([ui EXCEPT !.signed = TRUE]) ELSE UNCHANGED ui /\ Wait

WizardMe == Reply("me") /\ ui' = [ui EXCEPT !.me = IF Hears("dialogs") THEN Of ELSE @] /\ Wait

WizardDialogs == Reply("dialogs") /\ ui' = [ui EXCEPT !.list = IF Hears("dialogs") THEN Of ELSE @,
                                                          !.all = IF Hears("dialogs") THEN Of ELSE @] /\ Wait

\* typing in the search field fills the list from the answer received last, which entering the page has kept
ApplyFilter ==
    /\ On("dialogs")
    /\ ui' = [ui EXCEPT !.list = ui.all]
    /\ Wait /\ Still /\ UNCHANGED <<inbox, saved, clicks>>

\* on whatever page is shown
WizardError == Reply("error") /\ UNCHANGED ui /\ Wait

WizardReply ==
    /\ InWizard
    /\ \/ WizardConnected \/ WizardCodeSent \/ WizardPasswordRequired \/ WizardSignedIn
       \/ WizardMe \/ WizardDialogs \/ WizardError
    /\ Still /\ UNCHANGED saved

WizardFinish ==
    /\ On("finish")
    /\ saved' = [phone |-> ui.asked, session |-> stored, chat |-> ui.chat, me |-> ui.me]
    /\ Gone

------------------------------------------------------------------------------
\* Cancel, from any of the three
Close == Open /\ Gone /\ UNCHANGED saved

Worker == Open /\ Work /\ UNCHANGED <<kind, files, ui, saved, clicks>>

HandleReply == AccountReply \/ PickerReply \/ WizardReply

DialogNext ==
    \/ \E p \in Phone : AccountEdit(p) \/ WizardEdit(p)
    \/ SubmitBasics \/ SubmitCode \/ SubmitPassword \/ AccountOk
    \/ PickerOpened \/ (\E a \in Account : AccountChanged(a)) \/ PickerOk
    \/ WizardNext \/ WizardBack \/ SendCode \/ SubmitLogin \/ ApplyFilter \/ WizardFinish
    \/ HandleReply \/ Worker \/ Close

\* the worker's loop runs on and the dialog's event loop takes every signal; the operator may stop anywhere
DialogSpec == DialogInit /\ [][DialogNext]_dialogVars /\ WF_dialogVars(Worker) /\ WF_dialogVars(HandleReply)

------------------------------------------------------------------------------
(* Properties.                                                                 *)

\* The session written for a new account is that of the phone written beside it, whatever is clicked while
\* Telegram answers: the phone is locked from the first call until a session is there.
SessionOfAccount == kind = "account" /\ saved # Nothing => saved.session = saved.phone

\* Once everything asked has been answered without a complaint, the picker's list and the channel it has
\* picked are those of the session it found for the account that is selected, however often the account
\* was changed under way, if every account has credentials (_AddChannelDialog, TelegramSessionService._connect).
PickerSettles ==
    kind = "picker" /\ ui.page = "picking" /\ Quiet /\ ~ui.told
      /\ (\A a \in Account : None \notin LoadAccountCredentials(a))
    => ui.list \in LoadAccountCredentials(ui.account) /\ ui.chat = ui.list

\* What the wizard finishes with is of one Telegram user, whatever late or doubled answers have turned its
\* pages: a channel has been picked, and if no write of a session has failed, it is one of the dialogs of the session
\* in the database, and the owner, if known, is that user.
FinishedAsOne ==
    kind = "wizard" /\ saved # Nothing =>
        /\ saved.chat \in Phone
        /\ ~unwritten => saved.session = saved.chat /\ saved.me \in {None, saved.chat}

\* The three dialogs, each of one Telegram user to the end.
OneUser == SessionOfAccount /\ PickerSettles /\ FinishedAsOne

\* A dialog that has locked its fields, or promised a list, ends the wait: with the next step, or with an error
\* and the fields open again (every coroutine of the session answers with a signal, whatever fails).
Waiting == \/ kind = "account" /\ ui.page = "basics" /\ ui.locked
           \/ kind = "picker" /\ ui.page = "picking" /\ ui.list = None /\ ~ui.told
WaitEnds == Waiting ~> ~Waiting

\* Not so, and not checked: the picker's channel while answers are under way, and the wizard's phone number.
PickedFromAccount == kind = "picker" /\ saved # Nothing => saved.chat \in {None, saved.phone}
PhoneOfSession == kind = "wizard" /\ saved # Nothing => saved.phone = saved.chat
=============================================================================
