---------------------------- MODULE MCTelegramBot ----------------------------
(* The bot with a short calendar.                                          *)
EXTENDS TelegramBot
=============================================================================
