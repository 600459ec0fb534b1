------------------------------- MODULE MCFeeds -------------------------------
(* Two assets for TLC.                                                      *)
EXTENDS Feeds

TwoAssets == <<"BTC", "ETH">>
=============================================================================
