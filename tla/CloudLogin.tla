----------------------------- MODULE CloudLogin -----------------------------
(***************************************************************************)
(* The Bambu Cloud login as the state machine without I/O that it is in    *)
(* packages/core/src/telemetry/providers/bambu-cloud/auth.ts.  A           *)
(* transition is a phase, the request its caller posts next and whether it *)
(* then asks for a code.  Who drives it, and when it fails, is in Setup.   *)
(***************************************************************************)

NoToken == ""
LoginTypes == {"verifyCode", "tfa", "other"}

Transition(phase, request, prompt, token) ==
  [phase |-> phase, request |-> request, prompt |-> prompt, token |-> token,
   failure |-> "none"]

fail(code) ==
  [phase |-> "failed", request |-> "none", prompt |-> FALSE, token |-> NoToken,
   failure |-> code]

\* The machine of a program that has not begun to sign in.
NoLogin == Transition("none", "none", FALSE, NoToken)

Authenticated(token) == Transition("authenticated", "none", FALSE, token)

beginPasswordLogin == Transition("await-login-result", "login", FALSE, NoToken)

\* Mutant: nothing is asked for after the email.
AwaitsCodeSilently == Transition("await-email-code", "send-code", FALSE, NoToken)

\* The request for an email, after which the code is asked for.
AwaitsCode == Transition("await-email-code", "send-code", TRUE, NoToken)

\* The machine is told of a code, not of an answer.
NoResponse == [token |-> NoToken, loginType |-> "other"]

\* A token comes first, whatever the login type beside it; both second factors
\* are answered with an emailed code.
afterFirstLogin(response) ==
  IF response.token # NoToken THEN Authenticated(response.token)
  ELSE IF response.loginType \in {"verifyCode", "tfa"} THEN AwaitsCode
  ELSE fail("unknown-login-type")

\* Mutant: a code that is refused is asked for once more.
advanceAgain(phase, event, response) ==
  IF phase = "await-login-result" /\ event = "login-result"
  THEN afterFirstLogin(response)
  ELSE IF phase = "await-email-code" /\ event = "email-code"
  THEN Transition("await-code-login-result", "login", FALSE, NoToken)
  ELSE IF phase = "await-code-login-result" /\ event = "login-result"
  THEN IF response.token # NoToken THEN Authenticated(response.token) ELSE AwaitsCode
  ELSE fail("unexpected-event")

advance(phase, event, response) ==
  IF phase = "await-login-result" /\ event = "login-result"
  THEN afterFirstLogin(response)
  ELSE IF phase = "await-email-code" /\ event = "email-code"
  THEN Transition("await-code-login-result", "login", FALSE, NoToken)
  ELSE IF phase = "await-code-login-result" /\ event = "login-result"
  THEN IF response.token # NoToken THEN Authenticated(response.token)
       ELSE fail("code-rejected")
  ELSE fail("unexpected-event")
=============================================================================
