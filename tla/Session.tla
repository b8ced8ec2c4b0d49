------------------------------- MODULE Session -------------------------------
(***************************************************************************)
(* One phone: the start of the app, who is signed in, the pages on its     *)
(* navigator, and what the phone has to write about an account.            *)
(*                                                                         *)
(* main() awaits the saving of the notification token before runApp().     *)
(* The first page is AuthGate, which follows the authentication state and  *)
(* shows a sign-in page, a spinner or MainPage; other pages are pushed on  *)
(* top of it, and some of them replace it.  Signing in and up go on after  *)
(* their page is gone.  Firestore keeps the writes of an account in a      *)
(* queue on the phone, in order, across restarts, and sends them while     *)
(* that account is signed in.                                              *)
(***************************************************************************)
EXTENDS Integers, Sequences, FiniteSets, SequencesExt

CONSTANTS
  Accounts,   \* the people who use this phone
  Admins,     \* those whose document says 'admin'
  Nobody,     \* no account
  Unheard,    \* the gate has not had its first authentication event
  MaxDepth,   \* bound: pages on the navigator
  MaxQueue,   \* bound: writes of an account waiting on the phone
  MaxCalls    \* bound: calls of the sign-in page under way

Tabs  == {"home", "orders", "cart", "profile"}
Pages == Tabs \cup {"loading", "login", "menu", "dashboard"}
Who   == Accounts \cup {Nobody}

(* A route of the navigator; owner is the user of a ProfilePage. *)
Route == [page : Pages, gate : BOOLEAN, owner : Who]

(* "start" is the token write that main() is waiting for. *)
WriteKinds == {"document", "token", "start"}

Call == [who : Accounts, stage : {"signing", "creating", "created", "writing"},
         mounted : BOOLEAN]

ASSUME SessionAssumption ==
  /\ Admins \subseteq Accounts
  /\ Nobody \notin Accounts /\ Unheard \notin Who
  /\ MaxDepth \in Nat /\ MaxQueue \in Nat /\ MaxCalls \in Nat

VARIABLES
  accounts,   \* accounts that exist
  documents,  \* the collection 'users': the accounts that have a document
  tokens,     \* the collection 'addFCMtoken': the accounts with a token on file
  queue,      \* the writes of each account that wait on this phone
  user,       \* FirebaseAuth.instance.currentUser, kept across restarts
  boot,       \* how far main() is
  setup,      \* how far _setupFCM is
  starter,    \* the account whose token main() has waited for in this life of the app
  stack,      \* the routes of the navigator, the visible one last
  heard,      \* the last authentication event AuthGate was built with
  reading,    \* AuthGate waits for the document of that user
  calls,      \* calls of _login and _signup under way
  cut,        \* history: accounts whose signing up was cut or whose write was refused
  overlap     \* history: a call of the sign-in page was started before another was over

phoneVars == <<user, boot, setup, starter>>
pageVars  == <<stack, heard, reading>>
storeVars == <<accounts, documents, tokens>>
history   == <<cut, overlap>>
vars == <<storeVars, queue, phoneVars, pageVars, calls, history>>

-----------------------------------------------------------------------------
(* A page the user has just come to; ProfilePage takes the user when built. *)
NewRoute(page) ==
  [page |-> page, gate |-> FALSE, owner |-> IF page = "profile" THEN user ELSE Nobody]

Top == stack[Len(stack)]
Shows(page) == boot = "up" /\ stack # <<>> /\ Top.page = page
GateThere == boot = "up" /\ stack # <<>> /\ stack[1].gate

Push(page) == Len(stack) < MaxDepth /\ stack' = Append(stack, NewRoute(page))

(* Mutant: the sign-in page is pushed on top. *)
GatePushes(page) ==
  IF page = "login" THEN stack' = Append(stack, NewRoute(page))
  ELSE stack' = [stack EXCEPT ![1] = [page |-> page, gate |-> TRUE, owner |-> Nobody]]

(* The first route is the gate, and now builds this page. *)
GateShows(page) ==
  stack' = [stack EXCEPT ![1] = [page |-> page, gate |-> TRUE, owner |-> Nobody]]

(* The calls that go on, among which those whose page the step disposes of. *)
Continue(cs) ==
  calls' = {[c EXCEPT !.mounted = @ /\ stack' # <<>> /\ stack'[1].page = "login"] : c \in cs}

Room(u) == Len(queue[u]) < MaxQueue
Enqueue(u, kind) == queue' = [queue EXCEPT ![u] = Append(@, kind)]

Init ==
  /\ accounts \in SUBSET Accounts
  /\ documents = accounts
  /\ tokens = {}
  /\ queue = [u \in Accounts |-> <<>>]
  /\ user = Nobody
  /\ boot = "off"
  /\ setup = "none"
  /\ starter = Nobody
  /\ stack = <<>>
  /\ heard = Unheard
  /\ reading = FALSE
  /\ calls = {}
  /\ cut = {}
  /\ overlap = FALSE

(***************************************************************************)
(* main() and NotificationsApi.initNotifications.                          *)
(***************************************************************************)
Launch ==
  /\ boot = "off"
  /\ boot' = "starting"
  /\ UNCHANGED <<storeVars, queue, user, setup, starter, pageVars, calls, history>>

(* runApp: the gate is the first route and has heard of nobody yet. *)
RunApp ==
  /\ boot' = "up"
  /\ setup' = "asking"
  /\ stack' = <<[page |-> "loading", gate |-> TRUE, owner |-> Nobody]>>

(* Mutant: the write is not awaited. *)
SaveTokenUnawaited ==
  /\ boot = "starting"
  /\ user # Nobody
  /\ Room(user)
  /\ Enqueue(user, "token")
  /\ RunApp
  /\ starter' = user
  /\ UNCHANGED <<storeVars, user, heard, reading, calls, history>>

(* Mutant: the start waits for somebody to sign in. *)
SaveTokenOfSomebody ==
  /\ boot = "starting"
  /\ \/ user # Nobody /\ Room(user) /\ Enqueue(user, "start")
     \/ user = Nobody /\ UNCHANGED queue
  /\ boot' = "saving"
  /\ starter' = user
  /\ UNCHANGED <<storeVars, user, setup, pageVars, calls, history>>

(* The token is there and somebody is signed in: set() it, and wait. *)
SaveToken ==
  /\ boot = "starting"
  /\ user # Nobody
  /\ Room(user)
  /\ Enqueue(user, "start")
  /\ boot' = "saving"
  /\ starter' = user
  /\ UNCHANGED <<storeVars, user, setup, pageVars, calls, history>>

(* Nobody is signed in, or the phone has no token. *)
SkipToken ==
  /\ boot = "starting"
  /\ RunApp
  /\ UNCHANGED <<storeVars, queue, user, starter, heard, reading, calls, history>>

(* requestPermission or getToken throws: main() ends before runApp. *)
StartThrows ==
  /\ boot = "starting"
  /\ boot' = "stuck"
  /\ UNCHANGED <<storeVars, queue, user, setup, starter, pageVars, calls, history>>

(* _setupFCM asks for the token again and saves it for whom it finds then. *)
SetupToken ==
  /\ setup = "asking"
  /\ setup' = "done"
  /\ \/ /\ user # Nobody
        /\ Room(user)
        /\ Enqueue(user, "token")
     \/ UNCHANGED queue
  /\ UNCHANGED <<storeVars, user, boot, starter, pageVars, calls, history>>

(***************************************************************************)
(* AuthGate.                                                               *)
(***************************************************************************)
(* Mutant: the first event only. *)
GateHearsOnce ==
  /\ GateThere
  /\ heard = Unheard
  /\ heard' = user
  /\ reading' = (user # Nobody)
  /\ IF user = Nobody THEN GateShows("login") ELSE GateShows("loading")
  /\ UNCHANGED <<storeVars, queue, phoneVars, calls, history>>

(* The StreamBuilder: the sign-in page without user; with one, a            *)
(* FutureBuilder, which keeps what it shows when only the user changes.     *)
GateHears ==
  /\ GateThere
  /\ heard # user
  /\ heard' = user
  /\ reading' = (user # Nobody)
  /\ \/ user = Nobody /\ GateShows("login")
     \/ user # Nobody /\ stack[1].page \notin Tabs /\ GateShows("loading")
     \/ user # Nobody /\ stack[1].page \in Tabs /\ UNCHANGED stack
  /\ Continue(calls)
  /\ UNCHANGED <<storeVars, queue, phoneVars, history>>

(* The document was read, whether there is one or not: MainPage. *)
GateLoads ==
  /\ GateThere
  /\ reading
  /\ reading' = FALSE
  /\ IF stack[1].page = "loading" THEN GateShows("home") ELSE UNCHANGED stack
  /\ UNCHANGED <<storeVars, queue, phoneVars, heard, calls, history>>

(* The read throws: hasData is false, and the spinner stays. *)
GateReadFails ==
  /\ GateThere
  /\ reading
  /\ reading' = FALSE
  /\ GateShows("loading")
  /\ UNCHANGED <<storeVars, queue, phoneVars, heard, calls, history>>

(***************************************************************************)
(* LoginSignupPage.  Its buttons stay enabled during a call.               *)
(***************************************************************************)
TapCall(u, stage) ==
  /\ Shows("login")
  /\ Cardinality(calls) < MaxCalls
  /\ calls' = calls \cup {[who |-> u, stage |-> stage, mounted |-> TRUE]}
  /\ overlap' = (overlap \/ calls # {} \/ user # Nobody)
  /\ UNCHANGED <<storeVars, queue, phoneVars, pageVars, cut>>

TapLogin(u)  == u \in accounts /\ TapCall(u, "signing")
TapSignup(u) == TapCall(u, "creating")

(* The answer that creates an account comes with the first event about it:   *)
(* nobody else signs in or out before its continuation has run.              *)
Quiet == \A c \in calls : c.stage # "created"

(* A wrong password, an address in use, no network: the message of the page. *)
CallFails(c) ==
  /\ c.stage \in {"signing", "creating"}
  /\ calls' = calls \ {c}
  /\ UNCHANGED <<storeVars, queue, phoneVars, pageVars, history>>

(* Mutant: the credential is kept for its user. *)
LoginDoneAsCall(c) ==
  /\ c.stage = "signing"
  /\ Quiet
  /\ calls' = calls \ {c}
  /\ user' = c
  /\ UNCHANGED <<storeVars, queue, boot, setup, starter, pageVars, history>>

LoginDone(c) ==
  /\ c.stage = "signing"
  /\ Quiet
  /\ calls' = calls \ {c}
  /\ user' = c.who
  /\ UNCHANGED <<storeVars, queue, boot, setup, starter, pageVars, history>>

(* createUserWithEmailAndPassword: the account exists and is signed in. *)
SignupCreated(c) ==
  /\ c.stage = "creating"
  /\ c.who \notin accounts
  /\ Quiet
  /\ accounts' = accounts \cup {c.who}
  /\ user' = c.who
  /\ calls' = (calls \ {c}) \cup {[c EXCEPT !.stage = "created"]}
  /\ UNCHANGED <<documents, tokens, queue, boot, setup, starter, pageVars, history>>

(* Mutant: if (!mounted) return. *)
SignupWritesIfMounted(c) ==
  /\ c.stage = "created"
  /\ Room(c.who)
  /\ \/ /\ c.mounted
        /\ Enqueue(c.who, "document")
        /\ calls' = (calls \ {c}) \cup {[c EXCEPT !.stage = "writing"]}
     \/ /\ ~c.mounted
        /\ calls' = calls \ {c}
        /\ UNCHANGED queue
  /\ UNCHANGED <<storeVars, phoneVars, pageVars, history>>

(* set() of the account's document, on the page or after it. *)
SignupWrites(c) ==
  /\ c.stage = "created"
  /\ Room(c.who)
  /\ Enqueue(c.who, "document")
  /\ calls' = (calls \ {c}) \cup {[c EXCEPT !.stage = "writing"]}
  /\ UNCHANGED <<storeVars, phoneVars, pageVars, history>>

(* The write is acknowledged: pushReplacement, which throws without page. *)
SignupDone(c) ==
  /\ c.stage = "writing"
  /\ c.who \in documents
  /\ IF c.mounted THEN stack' = [stack EXCEPT ![Len(stack)] = NewRoute("home")]
                  ELSE UNCHANGED stack
  /\ Continue(calls \ {c})
  /\ UNCHANGED <<storeVars, queue, phoneVars, heard, reading, history>>

(***************************************************************************)
(* The user on the pages.                                                  *)
(***************************************************************************)
(* MainPage: the other tab's page is built anew. *)
SwitchTab(t) ==
  /\ \E s \in Tabs \ {t} : Shows(s)
  /\ stack' = [stack EXCEPT ![Len(stack)] = [NewRoute(t) EXCEPT !.gate = Top.gate]]
  /\ UNCHANGED <<storeVars, queue, phoneVars, heard, reading, calls, history>>

(* A restaurant of the home page. *)
OpenMenu ==
  /\ Shows("home")
  /\ Push("menu")
  /\ UNCHANGED <<storeVars, queue, phoneVars, heard, reading, calls, history>>

(* The bar of RestaurantMenuPage: pushAndRemoveUntil removes every route,   *)
(* the gate among them.                                                     *)
MenuTab(t) ==
  /\ Shows("menu")
  /\ stack' = <<NewRoute(t)>>
  /\ Continue(calls)
  /\ UNCHANGED <<storeVars, queue, phoneVars, heard, reading, history>>

OpenAdmin ==
  /\ Shows("profile")
  /\ Top.owner \in Admins
  /\ Push("dashboard")
  /\ UNCHANGED <<storeVars, queue, phoneVars, heard, reading, calls, history>>

(* "Retour cote client": another MainPage on top of the dashboard. *)
ClientSide ==
  /\ Shows("dashboard")
  /\ Push("home")
  /\ UNCHANGED <<storeVars, queue, phoneVars, heard, reading, calls, history>>

(* The back button; on the last route the platform closes the app: Kill. *)
Back ==
  /\ boot = "up"
  /\ Len(stack) > 1
  /\ stack' = Front(stack)
  /\ UNCHANGED <<storeVars, queue, phoneVars, heard, reading, calls, history>>

(* _submitOrder has ended and pops the route CartPage is in. *)
OrderDone ==
  /\ Shows("cart")
  /\ user # Nobody
  /\ stack' = Front(stack)
  /\ Continue(calls)
  /\ UNCHANGED <<storeVars, queue, phoneVars, heard, reading, history>>

(* The button of the home page. *)
Logout ==
  /\ Shows("home")
  /\ Quiet
  /\ user # Nobody
  /\ user' = Nobody
  /\ UNCHANGED <<storeVars, queue, boot, setup, starter, pageVars, calls, history>>

(***************************************************************************)
(* Firestore and the platform.                                             *)
(***************************************************************************)
(* The phone's client runs for the signed-in account, the oldest write first. *)
Sends(u) == boot # "off" /\ user = u /\ queue[u] # <<>>

Deliver(u) ==
  LET kind == Head(queue[u]) IN
  /\ Sends(u)
  /\ queue' = [queue EXCEPT ![u] = Tail(@)]
  /\ documents' = IF kind = "document" THEN documents \cup {u} ELSE documents
  /\ tokens' = IF kind = "document" THEN tokens ELSE tokens \cup {u}
  /\ IF kind = "start" THEN RunApp ELSE UNCHANGED <<boot, setup, stack>>
  /\ UNCHANGED <<accounts, user, starter, heard, reading, calls, history>>

(* The server turns a write down: the call that awaits it throws. *)
Refuse(u) ==
  LET kind == Head(queue[u]) IN
  /\ Sends(u)
  /\ queue' = [queue EXCEPT ![u] = Tail(@)]
  /\ cut' = IF kind = "document" THEN cut \cup {u} ELSE cut
  /\ calls' = {c \in calls : ~(kind = "document" /\ c.who = u /\ c.stage = "writing")}
  /\ boot' = IF kind = "start" THEN "stuck" ELSE boot
  /\ UNCHANGED <<storeVars, user, setup, starter, pageVars, overlap>>

(* The app ends; the queue and the signed-in account outlive it. *)
Kill ==
  /\ boot # "off"
  /\ boot' = "off"
  /\ setup' = "none"
  /\ starter' = Nobody
  /\ stack' = <<>>
  /\ heard' = Unheard
  /\ reading' = FALSE
  /\ calls' = {}
  /\ queue' = [u \in Accounts |-> [i \in DOMAIN queue[u] |->
                IF queue[u][i] = "start" THEN "token" ELSE queue[u][i]]]
  /\ cut' = cut \cup {c.who : c \in {d \in calls : d.stage = "created"}}
  /\ overlap' = FALSE
  /\ UNCHANGED <<storeVars, user>>

-----------------------------------------------------------------------------
Main == Launch \/ SaveToken \/ SkipToken \/ StartThrows \/ SetupToken
Gate == GateHears \/ GateLoads \/ GateReadFails

CallStep(c) ==
  \/ CallFails(c) \/ LoginDone(c) \/ SignupCreated(c) \/ SignupWrites(c) \/ SignupDone(c)

Navigate ==
  \/ \E t \in Tabs : SwitchTab(t) \/ MenuTab(t)
  \/ OpenMenu \/ OpenAdmin \/ ClientSide \/ Back \/ OrderDone \/ Logout

Next ==
  \/ Main \/ Gate \/ Navigate \/ Kill
  \/ \E u \in Accounts : TapLogin(u) \/ TapSignup(u) \/ Deliver(u) \/ Refuse(u)
  \/ \E c \in calls : CallStep(c)

Spec == Init /\ [][Next]_vars

(* main() and the gate go on, Firestore answers, a continuation runs. *)
Fairness ==
  /\ WF_vars(SaveToken \/ SkipToken \/ StartThrows)
  /\ WF_vars(GateHears) /\ WF_vars(GateLoads \/ GateReadFails)
  /\ \A u \in Accounts : /\ WF_vars(Deliver(u) \/ Refuse(u))
                         /\ WF_vars(\E c \in calls : c.who = u /\ SignupWrites(c))

FairSpec == Spec /\ Fairness

-----------------------------------------------------------------------------
(* The types of the collections, the queues, the routes and the calls. *)
TypeOK ==
  /\ accounts \subseteq Accounts
  /\ documents \subseteq accounts
  /\ tokens \subseteq Accounts
  /\ queue \in [Accounts -> Seq(WriteKinds)]
  /\ user \in Who
  /\ boot \in {"off", "starting", "saving", "up", "stuck"}
  /\ setup \in {"none", "asking", "done"}
  /\ starter \in Who
  /\ stack \in Seq(Route)
  /\ heard \in Who \cup {Unheard}
  /\ reading \in BOOLEAN
  /\ calls \subseteq Call
  /\ cut \subseteq Accounts
  /\ overlap \in BOOLEAN

(* When the app shows its first page, the account it was started for can be  *)
(* notified: main() does not run the app before the token is on file.        *)
TokenOnFile == boot = "up" /\ starter # Nobody => starter \in tokens

(* main() waits for a write the phone will still send: it is in the queue of *)
(* the account that is signed in, and while no page is there that stays so.  *)
(* The rest of AppComesUp is the network's.                                  *)
StartUnderway ==
  boot = "saving" =>
    user # Nobody /\ \E i \in DOMAIN queue[user] : queue[user][i] = "start"

(* The gate, while it is on the navigator, shows the sign-in page to nobody  *)
(* but who is signed out, once it has heard of that and has no read to wait  *)
(* for: neither a call of the page, nor routes above it, nor a change of tab *)
(* put another page in its place.  The rest of GateFollowsUser is that the   *)
(* event and the answer come.                                                *)
GateSettled ==
  GateThere /\ heard = user /\ ~reading => (stack[1].page = "login" <=> user = Nobody)

(* An account without document, which the administrators' pages do not list, *)
(* is one whose signing up the phone cut short or the server refused; the    *)
(* others have theirs on its way, though the page that signs up is gone as   *)
(* soon as the gate hears of the account, and though the app may be killed.  *)
DocumentUnderway ==
  \A u \in accounts \ (documents \cup cut) :
    \/ \E c \in calls : c.who = u /\ c.stage = "created"
    \/ \E i \in DOMAIN queue[u] : queue[u][i] = "document"

(* Nobody is shown another's profile.  Pages outlive a change of user: a     *)
(* profile may be under the page somebody signs out from, or on the gate     *)
(* when it hears of a user.  It holds while nobody starts a call on the sign-in   *)
(* page before the last one has closed it, which the code does not prevent.  *)
ProfileBelongsToUser ==
  ~overlap => \A i \in DOMAIN stack :
    stack[i].page = "profile" => stack[i].owner = user \/ user = Nobody

(* The app comes up, or its start has failed for all to see: what main()     *)
(* waits for comes.                                                          *)
AppComesUp == boot = "starting" ~> boot \in {"up", "stuck", "off"}

GateRight ==
  /\ heard = user
  /\ \/ user = Nobody /\ stack[1].page = "login"
     \/ user # Nobody /\ ~reading

(* As long as the gate is on the navigator it comes to show what the user's  *)
(* state asks for, whatever was on top of it when that changed.              *)
GateFollowsUser == GateThere ~> (GateThere => GateRight)

(* A signed-in account without document gets it, unless it signs out, the    *)
(* app ends, the signing up was cut or the document is refused.              *)
AccountGetsDocument ==
  \A u \in Accounts :
    (u \in accounts \ documents /\ user = u /\ boot # "off")
      ~> (u \in documents \cup cut \/ user # u \/ boot = "off")

(* "Commandes enregistrees" is said on a page: while the app is up there is  *)
(* one on the navigator.                                                     *)
AlwaysAPage == boot = "up" => stack # <<>>

=============================================================================
