---------------------------- MODULE StoreSamples ----------------------------
(* Certificates, tokens and API responses that the MC modules draw on. *)
EXTENDS AppleClient

Certificate(name, issuer, key, purpose) ==
  [name |-> name, issuer |-> issuer, key |-> key, purpose |-> purpose]

(* Apple's own, a developer's under the same authority, ones of nobody, and  *)
(* one that the developer has signed.                                        *)
Notifier  == Certificate("notifier", "WWDR", "ecdsa", "notifications")
Developer == Certificate("developer", "WWDR", "ecdsa", "signing")
WWDR      == Certificate("WWDR", "Apple Root CA - G3", "ecdsa", "authority")
Stranger  == Certificate("stranger", "self", "ecdsa", "notifications")
Self      == Certificate("self", "self", "ecdsa", "authority")
Forged    == Certificate("forged", "developer", "ecdsa", "notifications")

Token(alg, x5c, signer, payload) ==
  [alg |-> alg, x5c |-> x5c, signer |-> signer, payload |-> payload]

(* Made by Apple's notification service. *)
Signed(payload) == Token("ES256", <<Notifier, WWDR>>, "notifier", payload)

(* Made by it with two intermediates in either order, or not made by it. *)
Tokens(payload) ==
  {Signed(payload),
   Token("ES256", <<Notifier, Self, WWDR>>, "notifier", payload),
   Token("none", <<Notifier, WWDR>>, "stranger", payload),
   Token("ES256", <<>>, "stranger", payload),
   Token("ES256", <<Notifier, WWDR>>, "stranger", payload),
   Token("ES256", <<Developer, WWDR>>, "developer", payload),
   Token("ES256", <<Stranger, Self>>, "stranger", payload),
   Token("ES256", <<Stranger, WWDR, Self>>, "stranger", payload),
   Token("ES256", <<Forged, Developer, WWDR>>, "forged", payload)}

Transaction(purchase, signedDate, expiresAt) ==
  [purchase |-> purchase, ourBundle |-> TRUE, ourProduct |-> TRUE,
   environment |-> "production", signedDate |-> signedDate, expiresAt |-> expiresAt]

LastTransaction(status, transaction, renewal) ==
  [status |-> status, transaction |-> transaction, renewal |-> renewal]

Response(code, groups) ==
  [code |-> code, decodes |-> TRUE, environment |-> "production", groups |-> groups]
=============================================================================
