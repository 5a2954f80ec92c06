---------------------------- MODULE TestHarness ----------------------------
(***************************************************************************)
(* The tests of src/wallet/src/main.rs (mod tests) run concurrently as    *)
(* async tasks.  Each takes a port from the shared counter PORT under its *)
(* mutex (port()), starts a server of its own on it (TestServer::new:     *)
(* init_server spawns web_server.listen and the JoinHandle is dropped),  *)
(* and then sends its requests one after another, checking each answer   *)
(* against what it expects (unwrap, expect_err, requires_wallet).        *)
(*                                                                         *)
(* A server's wallet slot (WebState.wallet) and the wallet files in the  *)
(* tests' temporary directories are the state the requests act on.  The  *)
(* handlers that act on them (routes.rs) are not in the repository:      *)
(* Handle states what spec.md 5 and the tests' own comments say of them. *)
(* Mnemonics and paths are kept as the class of argument they are        *)
(* (the test's own, malformed, or another valid one); the values a       *)
(* successful call returns (summaries, keys, assets) are left out.       *)
(***************************************************************************)
EXTENDS Naturals, Sequences, FiniteSets, TLC

CONSTANTS
  Tests,       \* the test functions that run concurrently
  BasePort,    \* the initial value of PORT (env PORT, default 60000)
  Occupied,    \* ports another process already listens on
  External,    \* model value: a listener that is not one of these tests' servers
  NoServer,    \* model value: nothing listens on the port
  NoHolder,    \* model value: the PORT mutex is free
  NoWallet     \* model value: the server's Option<Wallet> is None

VARIABLES
  counter,     \* *PORT.lock(): the next port to hand out
  holder,      \* the test holding the PORT mutex guard, or NoHolder
  pc,          \* per test: "start", "read", "bump", "init", "run", "waiting",
               \* "done", "failed"
  port,        \* per test: the port port() returned to it
  spawned,     \* tests whose listen task is spawned and has not bound yet
  listener,    \* port -> the test whose server listens on it, External, or NoServer
  wallet,      \* per test server: the test whose wallet it holds open, or NoWallet
  created,     \* the tests in whose temp_dir a wallet has been created
  step,        \* per test: the index of its next request
  lastBy,      \* per test: who answered its last request (NoServer: nobody)
  unanswered   \* the tests one of whose requests nobody answered

vars == <<counter, holder, pc, port, spawned, listener, wallet, created, step,
          lastBy, unanswered>>

Ports == BasePort .. BasePort + Cardinality(Tests) - 1

\* The largest TCP port: PORT is a u64, an address or URL is not.
MaxPort == 65535

ASSUME /\ BasePort \in Nat
       /\ Occupied \subseteq Ports

(***************************************************************************)
(* The requests of each test, in order.  A request is its operation, the  *)
(* class of its arguments, and whether the test expects it to succeed.    *)
(*   new, open: newwallet / openwallet with arg "own" (the test's mnemonic *)
(*     and temp_dir), "malformed" (invalid-mnemonic or invalid-path), or  *)
(*     "other" (another valid mnemonic);                                   *)
(*   close: closewallet;                                                   *)
(*   use: an operation needing the open wallet (getinfo, getaddress,      *)
(*     getbalance, newkey, newasset), arg "own" for well-formed arguments, *)
(*     "malformed" for a bad address, asset code, key type or a route     *)
(*     pattern misused.                                                    *)
(***************************************************************************)
Req(op, arg, ok) == [op |-> op, arg |-> arg, ok |-> ok]
Repeat(n, r) == [i \in 1..n |-> r]

TestNewWallet ==
  << Req("new", "malformed", FALSE), Req("new", "malformed", FALSE),
     Req("new", "own", TRUE), Req("new", "own", FALSE) >>

TestOpenWallet ==
  << Req("open", "own", FALSE), Req("new", "own", TRUE), Req("open", "own", TRUE),
     Req("open", "malformed", FALSE), Req("open", "other", FALSE),
     Req("open", "malformed", FALSE) >>

TestCloseWallet == << Req("close", "own", FALSE), Req("new", "own", TRUE),
                      Req("close", "own", TRUE) >>

\* test_getinfo and test_getaddress have the same shape.
TestGetInfo    == << Req("use", "own", FALSE), Req("new", "own", TRUE), Req("use", "own", TRUE) >>
TestGetAddress == TestGetInfo

TestGetBalance ==
  Repeat(3, Req("use", "own", FALSE)) \o << Req("new", "own", TRUE) >>
  \o Repeat(4, Req("use", "own", TRUE)) \o Repeat(6, Req("use", "malformed", FALSE))

TestNewKey ==
  Repeat(3, Req("use", "own", FALSE)) \o << Req("new", "own", TRUE) >>
  \o Repeat(4, Req("use", "own", TRUE)) \o << Req("use", "malformed", FALSE) >>

TestNewAsset ==
  Repeat(2, Req("use", "own", FALSE)) \o << Req("new", "own", TRUE) >>
  \o Repeat(12, Req("use", "own", TRUE))

Script ==
  ("test_newwallet" :> TestNewWallet) @@ ("test_openwallet" :> TestOpenWallet)
  @@ ("test_closewallet" :> TestCloseWallet) @@ ("test_getinfo" :> TestGetInfo)
  @@ ("test_getaddress" :> TestGetAddress) @@ ("test_getbalance" :> TestGetBalance)
  @@ ("test_newkey" :> TestNewKey) @@ ("test_newasset" :> TestNewAsset)

ASSUME Tests \subseteq DOMAIN Script

(***************************************************************************)
(* The wallet handlers (routes.rs, from spec.md 5 and the tests): server  *)
(* o answers request r of test t.  newwallet creates and opens a wallet   *)
(* in t's temp_dir unless one exists there; openwallet opens an existing  *)
(* one with its own mnemonic; closewallet and every other operation need  *)
(* an open wallet; malformed arguments fail and change nothing.           *)
(***************************************************************************)
Handle(o, t, r) ==
  CASE r.op = "new" /\ r.arg = "own" /\ t \notin created ->
         [ok |-> TRUE, wallet |-> [wallet EXCEPT ![o] = t], created |-> created \cup {t}]
    [] r.op = "open" /\ r.arg = "own" /\ t \in created ->
         [ok |-> TRUE, wallet |-> [wallet EXCEPT ![o] = t], created |-> created]
    [] r.op = "close" /\ wallet[o] # NoWallet ->
         [ok |-> TRUE, wallet |-> [wallet EXCEPT ![o] = NoWallet], created |-> created]
    [] r.op = "use" /\ r.arg = "own" /\ wallet[o] # NoWallet ->
         [ok |-> TRUE, wallet |-> wallet, created |-> created]
    [] OTHER ->
         [ok |-> FALSE, wallet |-> wallet, created |-> created]

\* What a client.get to a port may get back: the answer of the test server
\* listening there, a connection error where nothing listens, or, from a
\* foreign process, any answer or none at all (answered = FALSE).
Answered(a) == a @@ [answered |-> TRUE]
Answers(by, t, r) ==
  IF by \in Tests THEN { Answered(Handle(by, t, r)) }
  ELSE IF by = External
  THEN [ok : BOOLEAN, wallet : {wallet}, created : {created}, answered : BOOLEAN]
  ELSE { Answered([ok |-> FALSE, wallet |-> wallet, created |-> created]) }

Init ==
  /\ counter = BasePort
  /\ holder = NoHolder
  /\ pc = [t \in Tests |-> "start"]
  /\ port = [t \in Tests |-> BasePort]
  /\ spawned = {}
  /\ listener = [p \in Ports |-> IF p \in Occupied THEN External ELSE NoServer]
  /\ wallet = [t \in Tests |-> NoWallet]
  /\ created = {}
  /\ step = [t \in Tests |-> 1]
  /\ lastBy = [t \in Tests |-> NoServer]
  /\ unanswered = {}

\* Variant: the guard not waited for.
LockIgnoringHolder(t) ==
  /\ pc[t] = "start"
  /\ holder' = t
  /\ pc' = [pc EXCEPT ![t] = "read"]
  /\ UNCHANGED <<counter, port, spawned, listener, wallet, created, step, lastBy, unanswered>>

\* port(): PORT.lock().await -- the task waits while another holds the guard.
Lock(t) ==
  /\ pc[t] = "start"
  /\ holder = NoHolder
  /\ holder' = t
  /\ pc' = [pc EXCEPT ![t] = "read"]
  /\ UNCHANGED <<counter, port, spawned, listener, wallet, created, step, lastBy, unanswered>>

\* Variant: the value read after the increment.
ReadAfterBump(t) ==
  /\ pc[t] = "read"
  /\ port' = [port EXCEPT ![t] = counter + 1]
  /\ pc' = [pc EXCEPT ![t] = "bump"]
  /\ UNCHANGED <<counter, holder, spawned, listener, wallet, created, step, lastBy, unanswered>>

\* let port = *counter;
Read(t) ==
  /\ pc[t] = "read"
  /\ port' = [port EXCEPT ![t] = counter]
  /\ pc' = [pc EXCEPT ![t] = "bump"]
  /\ UNCHANGED <<counter, holder, spawned, listener, wallet, created, step, lastBy, unanswered>>

\* Variants: the increment forgotten; the guard kept (leaked).
BumpWithoutIncrement(t) ==
  /\ pc[t] = "bump"
  /\ holder' = NoHolder
  /\ pc' = [pc EXCEPT ![t] = "init"]
  /\ UNCHANGED <<counter, port, spawned, listener, wallet, created, step, lastBy, unanswered>>
BumpKeepingGuard(t) ==
  /\ pc[t] = "bump"
  /\ counter' = counter + 1
  /\ pc' = [pc EXCEPT ![t] = "init"]
  /\ UNCHANGED <<holder, port, spawned, listener, wallet, created, step, lastBy, unanswered>>

\* *counter += 1; the guard is dropped on return.
Bump(t) ==
  /\ pc[t] = "bump"
  /\ counter' = counter + 1
  /\ holder' = NoHolder
  /\ pc' = [pc EXCEPT ![t] = "init"]
  /\ UNCHANGED <<port, spawned, listener, wallet, created, step, lastBy, unanswered>>

\* TestServer::new: init_server registers the routes and spawns
\* web_server.listen(addr); the JoinHandle it returns is dropped.  Then
\* Url::parse of the base URL unwraps, which panics above MaxPort.
StartServer(t) ==
  /\ pc[t] = "init"
  /\ spawned' = spawned \cup {t}
  /\ pc' = [pc EXCEPT ![t] = IF port[t] > MaxPort THEN "failed" ELSE "run"]
  /\ UNCHANGED <<counter, holder, port, listener, wallet, created, step, lastBy, unanswered>>

\* The spawned listen task binds its port; if the port is taken, listen
\* (or is no port) returns the error into the dropped JoinHandle and
\* nobody sees it.
Listen(t) ==
  /\ t \in spawned
  /\ spawned' = spawned \ {t}
  /\ listener' = IF listener[port[t]] = NoServer /\ port[t] <= MaxPort
                 THEN [listener EXCEPT ![port[t]] = t] ELSE listener
  /\ UNCHANGED <<counter, holder, pc, port, wallet, created, step, lastBy, unanswered>>

\* server.get(path).await and the test's check of the answer: unwrap()
\* panics on an error, expect_err / requires_wallet panic on a success.
\* The client is built with set_timeout(None): a request nobody answers
\* leaves the test waiting for ever.
Send(t) ==
  /\ pc[t] = "run"
  /\ LET r  == Script[t][step[t]]
         by == listener[port[t]]
     IN  \E a \in Answers(by, t, r) :
           /\ wallet' = a.wallet
           /\ created' = a.created
           /\ lastBy' = [lastBy EXCEPT ![t] = by]
           /\ unanswered' = IF by = NoServer THEN unanswered \cup {t} ELSE unanswered
           /\ step' = [step EXCEPT ![t] = IF a.answered THEN @ + 1 ELSE @]
           /\ pc' = [pc EXCEPT ![t] = IF ~a.answered THEN "waiting"
                                      ELSE IF a.ok # r.ok THEN "failed"
                                      ELSE IF step[t] = Len(Script[t]) THEN "done"
                                      ELSE "run"]
  /\ UNCHANGED <<counter, holder, port, spawned, listener>>

\* Every test has returned; the leaked servers stay idle.
Terminated ==
  /\ \A t \in Tests : pc[t] \in {"done", "failed"}
  /\ spawned = {}
  /\ UNCHANGED vars

Next ==
  \/ \E t \in Tests : Lock(t) \/ Read(t) \/ Bump(t) \/ StartServer(t) \/ Send(t)
  \/ \E t \in spawned : Listen(t)
  \/ Terminated

\* The async executor keeps polling every task that can run.
Spec == Init /\ [][Next]_vars
        /\ \A t \in Tests : WF_vars(Lock(t) \/ Read(t) \/ Bump(t) \/ StartServer(t)
                                    \/ Send(t) \/ Listen(t))

-----------------------------------------------------------------------------
TypeOK ==
  /\ counter \in BasePort .. BasePort + Cardinality(Tests)
  /\ holder \in Tests \cup {NoHolder}
  /\ pc \in [Tests -> {"start", "read", "bump", "init", "run", "waiting", "done", "failed"}]
  /\ port \in [Tests -> Ports]
  /\ spawned \subseteq Tests
  /\ listener \in [Ports -> Tests \cup {External, NoServer}]
  /\ wallet \in [Tests -> Tests \cup {NoWallet}]
  /\ created \subseteq Tests
  /\ step \in [Tests -> Nat \ {0}]
  /\ lastBy \in [Tests -> Tests \cup {External, NoServer}]
  /\ unanswered \subseteq Tests

\* The comment in TestServer::new: the server "is unique to this test".
\* Every request a test sends is answered by the server that test started
\* (or by nobody), never by another test's server or a foreign process:
\* port() hands each test a port of its own and that test's listen task
\* is the one that binds it.
OwnServer == \A t \in Tests : lastBy[t] \in {t, NoServer}

\* The test scripts agree with the handlers and with each other: a test
\* fails only where one of its requests found no server listening yet
\* (the listen task spawned by init_server had not bound its port), never
\* because another test's requests changed the wallet it works on.
FailsOnlyUnanswered == \A t \in Tests : pc[t] = "failed" => t \in unanswered

\* Every test returns: no task waits for ever on the PORT mutex, and no
\* request of a test waits for ever for its answer (the client has no
\* timeout, line 401, so this rests on who listens on the test's port).
AllTestsReturn == <>(\A t \in Tests : pc[t] \in {"done", "failed"})

\* expect_err and requires_wallet are meant to show that the server
\* refused the request: every expected error a test accepted came from a
\* server that answered it, not from a connection nobody accepted.
ExpectedErrorsAnswered ==
  \A t \in Tests : step[t] > 1 /\ ~Script[t][step[t] - 1].ok => lastBy[t] # NoServer
=============================================================================
