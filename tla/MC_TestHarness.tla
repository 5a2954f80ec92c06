--------------------------- MODULE MC_TestHarness ---------------------------
(***************************************************************************)
(* TestHarness for TLC: the tests that run at once are given in each cfg, *)
(* PORT starts at its default 60000.                                       *)
(***************************************************************************)
EXTENDS TestHarness

\* The wallet-lifecycle tests: between them every operation and argument class.
MCLifecycleTests == {"test_newwallet", "test_openwallet", "test_closewallet"}

\* The tests of the operations that need an open wallet.
MCOperationTests == {"test_getbalance", "test_newkey", "test_newasset"}
=============================================================================
