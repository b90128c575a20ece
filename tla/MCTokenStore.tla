---- MODULE MCTokenStore ----
(* An instance of TokenStore: one account and a few tokens. *)
EXTENDS TokenStore

CONSTANTS run, auth

MCTokens == [access: 1..MaxTokens, refresh: 0..MaxTokens]
====
