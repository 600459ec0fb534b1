----------------------------- MODULE MCBotLoop -----------------------------
(* One bot, the resolver and a health check, for TLC: each shared object    *)
(* has two users.                                                           *)
EXTENDS BotLoop

OneBot == {<<"MOMENTUM", "BTC">>}
OneTask == {"price_rec"}
=============================================================================
