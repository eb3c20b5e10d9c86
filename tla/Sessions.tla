------------------------------- MODULE Sessions -------------------------------
(***************************************************************************)
(* The sessions of one user: refresh tokens that rotate on every use, the  *)
(* idle window of a session, and what ends them.                           *)
(*                                                                         *)
(* Redis keeps a key per refresh token that is live, one per token that    *)
(* was revoked, and one per session that exists for as long as the session *)
(* is used; PostgreSQL keeps the account.  A handler talks to both in      *)
(* several round trips, one action each, and nothing ties them together:   *)
(* between a check and what follows from it another handler may have       *)
(* revoked the token, ended the session or changed the password, and the   *)
(* idle window may have closed.                                            *)
(*                                                                         *)
(* Time passes in ticks; the life of a refresh token (seven days) is       *)
(* longer than any behaviour of the model.  Signatures, hashes and the     *)
(* second factor are in Accounts; here a password is the number of the     *)
(* write that set it.                                                      *)
(***************************************************************************)
EXTENDS Integers, Sequences, FiniteSets

CONSTANTS
  Handlers,     \* calls that may be in flight at the same time
  Links,        \* password reset links
  None,
  Idle,         \* session_idle_timeout, in ticks
  Access,       \* life of an access token, in ticks
  MaxTokens,    \* bound on the refresh tokens minted
  MaxCalls,     \* bound on the calls made
  MaxWrites     \* bound on the passwords set

ASSUME SessionsAssumption ==
  /\ Idle \in Nat \ {0} /\ Access \in Nat \ {0}
  /\ MaxTokens \in Nat \ {0, 1} /\ MaxCalls \in Nat /\ MaxWrites \in Nat
  /\ None \notin Nat

VARIABLES
  user,         \* the row: is it active, which write set its password
  tokens,       \* refresh tokens in the order they were minted
  live,         \* refresh:active:<user>:<jti>
  blocked,      \* refresh:blocked:<jti>
  seen,         \* ticks session:seen:<sid> has left; 0 when there is no key
  access,       \* ticks the newest access token of a session has left
  links,        \* pwreset:<token>
  used,         \* links through which a password was set
  cookie,       \* the refresh cookie of the user's browser
  calls,        \* the calls in flight, or None
  undisturbed,  \* nothing but its own calls, one by one, met the browser's cookie
  over,         \* history: sessions that were over with no call past its check
  barred,       \* history: the user became inactive with no call past its check
  begun, writes

vars == <<user, tokens, live, blocked, seen, access, links, used, cookie, calls,
          undisturbed, over, barred, begun, writes>>

\* Session 0 is that of the tokens minted before tokens named their session.
Sids == 0 .. MaxTokens
Jtis == 1 .. MaxTokens
User  == [active : BOOLEAN, password : 0 .. MaxWrites]
Token == [sid : Sids, opened : 0 .. MaxWrites, slipped : BOOLEAN]
Call  == [op : {"refresh", "login", "logout", "api", "change", "reset", "admin"},
          stage : {"session", "expire", "load", "slide", "verify", "revoke", "register",
                   "open", "end", "burn", "write", "scan", "delete"},
          mine : BOOLEAN,         \* made by the browser with its cookie
          jti : Jtis \cup {0}, sid : Sids, link : Links \cup {None},
          password : 0 .. MaxWrites,      \* the one it proved or set
          keys : SUBSET Jtis,             \* what SCAN returned
          overlapped : BOOLEAN]           \* a sweep ran while it was in flight
ASSUME NullAssumption == None \notin Call

Fresh == [op |-> "api", stage |-> "session", mine |-> FALSE, jti |-> 0, sid |-> 0,
          link |-> None, password |-> 0, keys |-> {}, overlapped |-> FALSE]

Stage(h, stage) == calls[h] # None /\ calls[h].stage = stage
To(h, stage)    == calls' = [calls EXCEPT ![h].stage = stage]
Ends(h)         == calls' = [calls EXCEPT ![h] = None]
InFlight        == {h \in Handlers : calls[h] # None}
MineInFlight    == {h \in InFlight : calls[h].mine}
Sweeping        == {h \in InFlight : calls[h].stage \in {"scan", "delete"}}

Begin(h, call) ==
  /\ calls[h] = None
  /\ begun < MaxCalls
  /\ begun' = begun + 1
  /\ calls' = [calls EXCEPT ![h] = call]
  /\ undisturbed' = (undisturbed /\ ~(call.mine /\ MineInFlight # {}))

\* The answer, with the Set-Cookie it carries.
AnswerCookie(h, value) == cookie' = IF calls[h].mine THEN value ELSE cookie

-----------------------------------------------------------------------------
(* The keys in Redis *)

IsRefreshJtiValid(j) == j \notin blocked /\ j \in live

\* A token without a session has no window that could close.
IsSessionActive(s) == s = 0 \/ seen[s] > 0

TouchSession(s) == seen' = IF s = 0 THEN seen ELSE [seen EXCEPT ![s] = Idle]
EndSession(s)   == seen' = IF s = 0 THEN seen ELSE [seen EXCEPT ![s] = 0]

\* Deleting the live key decides; the blocklist entry follows it.
RevokeRefreshJti(j) ==
  /\ live' = live \ {j}
  /\ blocked' = blocked \cup {j}

NewSession == 1 + Cardinality({tokens[j].sid : j \in DOMAIN tokens} \ {0})

\* An hour glass for every key that expires and every access token.
Tick ==
  /\ \E s \in Sids : seen[s] > 0 \/ access[s] > 0
  /\ seen' = [s \in Sids |-> IF seen[s] = 0 THEN 0 ELSE seen[s] - 1]
  /\ access' = [s \in Sids |-> IF access[s] = 0 THEN 0 ELSE access[s] - 1]
  /\ UNCHANGED <<user, tokens, live, blocked, links, used, cookie, calls, undisturbed,
                 writes, begun>>

-----------------------------------------------------------------------------
(* get_current_user, which starts every call with an access token *)

ApiCall(h, s) ==
  /\ access[s] > 0
  /\ Begin(h, [Fresh EXCEPT !.sid = s])
  /\ UNCHANGED <<user, tokens, live, blocked, seen, access, links, used, cookie,
                 writes>>

\* An access token is enough, whatever became of its session.
CheckSessionUnasked(h) ==
  /\ Stage(h, "session")
  /\ IF calls[h].op # "refresh" \/ IsSessionActive(calls[h].sid)
     THEN To(h, "load")
     ELSE To(h, "expire")
  /\ UNCHANGED <<user, tokens, live, blocked, seen, access, links, used, cookie,
                 undisturbed, writes, begun>>

\* Also the second step of a refresh.
CheckSession(h) ==
  /\ Stage(h, "session")
  /\ IF IsSessionActive(calls[h].sid)
     THEN To(h, "load")
     ELSE IF calls[h].op = "refresh" THEN To(h, "expire") ELSE Ends(h)
  /\ UNCHANGED <<user, tokens, live, blocked, seen, access, links, used, cookie,
                 undisturbed, writes, begun>>

AfterLoad(h) == CASE calls[h].op = "refresh" -> "revoke"
                  [] calls[h].op = "reset"   -> "write"
                  [] OTHER                   -> "slide"

\* Deactivation noticed only at the next login.
LoadUserUnchecked(h) ==
  /\ Stage(h, "load")
  /\ To(h, AfterLoad(h))
  /\ UNCHANGED <<user, tokens, live, blocked, seen, access, links, used, cookie,
                 undisturbed, writes, begun>>

\* Also a step of a refresh, and of a reset once its link is burnt.
LoadUser(h) ==
  /\ Stage(h, "load")
  /\ IF user.active
     THEN /\ To(h, AfterLoad(h))
          /\ UNCHANGED cookie
     ELSE /\ Ends(h)
          /\ IF calls[h].op = "refresh" THEN AnswerCookie(h, None) ELSE UNCHANGED cookie
  /\ UNCHANGED <<user, tokens, live, blocked, seen, access, links, used, undisturbed, writes, begun>>

Slide(h) ==
  /\ Stage(h, "slide")
  /\ TouchSession(calls[h].sid)
  /\ IF calls[h].op = "change" THEN To(h, "write") ELSE Ends(h)
  /\ UNCHANGED <<user, tokens, live, blocked, access, links, used, cookie, undisturbed,
                 writes, begun>>

-----------------------------------------------------------------------------
(* login, refresh, logout *)

Login(h, mine) ==
  /\ Begin(h, [Fresh EXCEPT !.op = "login", !.stage = "verify", !.mine = mine])
  /\ UNCHANGED <<user, tokens, live, blocked, seen, access, links, used, cookie,
                 writes>>

\* authenticate_local with the right password; a wrong one changes nothing here.
VerifyPassword(h) ==
  /\ Stage(h, "verify")
  /\ IF user.active
     THEN calls' = [calls EXCEPT ![h].password = user.password, ![h].stage = "register"]
     ELSE Ends(h)
  /\ UNCHANGED <<user, tokens, live, blocked, seen, access, links, used, cookie,
                 undisturbed, writes, begun>>

GivenOut(j) == j \in DOMAIN tokens /\ ~\E g \in Handlers : Stage(g, "open") /\ calls[g].jti = j

\* Any token that somebody was given may be presented; the browser presents
\* its cookie.
Refresh(h, j) ==
  /\ GivenOut(j)
  /\ IF IsRefreshJtiValid(j)
     THEN /\ Begin(h, [Fresh EXCEPT !.op = "refresh", !.mine = (j = cookie), !.jti = j,
                                    !.sid = tokens[j].sid])
          /\ UNCHANGED cookie
     ELSE /\ calls[h] = None
          /\ cookie' = IF j = cookie THEN None ELSE cookie
          /\ UNCHANGED <<calls, undisturbed, begun>>
  /\ UNCHANGED <<user, tokens, live, blocked, seen, access, links, used, writes>>

\* delete_cookie on the response that the exception discards.
ExpireKeepingCookie(h) ==
  /\ Stage(h, "expire")
  /\ RevokeRefreshJti(calls[h].jti)
  /\ Ends(h)
  /\ UNCHANGED <<user, tokens, seen, access, links, used, cookie, undisturbed, writes, begun>>

\* The session went quiet: its token is revoked and the cookie cleared.
Expire(h) ==
  /\ Stage(h, "expire")
  /\ RevokeRefreshJti(calls[h].jti)
  /\ Ends(h)
  /\ AnswerCookie(h, None)
  /\ UNCHANGED <<user, tokens, seen, access, links, used, undisturbed,
                 writes, begun>>

Revoke(h) ==
  /\ Stage(h, "revoke")
  /\ RevokeRefreshJti(calls[h].jti)
  /\ To(h, IF calls[h].op = "refresh" THEN "register" ELSE "end")
  /\ UNCHANGED <<user, tokens, seen, access, links, used, cookie, undisturbed, writes, begun>>

\* Mint a pair: a refresh stays in its session, everything else opens one.
Register(h) ==
  /\ Stage(h, "register")
  /\ Len(tokens) < MaxTokens
  /\ LET c == calls[h]
         parent == c.op = "refresh"
         s == IF c.sid # 0 THEN c.sid ELSE NewSession
         slipped == \/ c.overlapped
                    \/ Sweeping \ {h} # {}
                    \/ parent /\ tokens[c.jti].slipped
     IN
     /\ tokens' = Append(tokens, [sid |-> s, slipped |-> slipped,
                                  opened |-> IF parent THEN tokens[c.jti].opened ELSE c.password])
     /\ live' = live \cup {Len(tokens) + 1}
     /\ calls' = [calls EXCEPT ![h].sid = s, ![h].jti = Len(tokens) + 1, ![h].stage = "open"]
  /\ UNCHANGED <<user, blocked, seen, access, links, used, cookie, undisturbed, writes, begun>>

\* Open or slide the idle window and answer with the pair.
Open(h) ==
  /\ Stage(h, "open")
  /\ TouchSession(calls[h].sid)
  /\ access' = [access EXCEPT ![calls[h].sid] = Access]
  /\ Ends(h)
  /\ AnswerCookie(h, calls[h].jti)
  /\ UNCHANGED <<user, tokens, live, blocked, links, used, undisturbed,
                 writes, begun>>

\* Whatever token of the user is presented, in the cookie or in the body; nobody
\* asks whether it is still valid.
Logout(h, j) ==
  /\ GivenOut(j)
  /\ Begin(h, [Fresh EXCEPT !.op = "logout", !.stage = "revoke", !.mine = (j = cookie),
                            !.jti = j, !.sid = tokens[j].sid])
  /\ UNCHANGED <<user, tokens, live, blocked, seen, access, links, used, cookie,
                 writes>>

End(h) ==
  /\ Stage(h, "end")
  /\ EndSession(calls[h].sid)
  /\ Ends(h)
  /\ AnswerCookie(h, None)
  /\ UNCHANGED <<user, tokens, live, blocked, access, links, used, undisturbed,
                 writes, begun>>

-----------------------------------------------------------------------------
(* Passwords: changed by the user, reset by a link or by an administrator  *)

ChangePassword(h, s, mine) ==
  /\ access[s] > 0
  /\ Begin(h, [Fresh EXCEPT !.op = "change", !.sid = s, !.mine = mine])
  /\ UNCHANGED <<user, tokens, live, blocked, seen, access, links, used, cookie,
                 writes>>

\* forgot_password stores the key in one call and mails the link.
ForgotPassword(l) ==
  /\ begun < MaxCalls
  /\ begun' = begun + 1
  /\ user.active
  /\ l \notin links \cup used
  /\ \A h \in InFlight : calls[h].link # l
  /\ links' = links \cup {l}
  /\ UNCHANGED <<user, tokens, live, blocked, seen, access, used, cookie, calls,
                 undisturbed, writes>>

\* The key is read here ...
ResetPassword(h, l) ==
  /\ l \in links
  /\ Begin(h, [Fresh EXCEPT !.op = "reset", !.stage = "burn", !.link = l])
  /\ UNCHANGED <<user, tokens, live, blocked, seen, access, links, used, cookie,
                 writes>>

\* The link is left to expire.
BurnNothing(h) ==
  /\ Stage(h, "burn")
  /\ To(h, "load")
  /\ UNCHANGED <<user, tokens, live, blocked, seen, access, links, used, cookie,
                 undisturbed, writes, begun>>

\* ... and deleted here, "before anything else can fail".
Burn(h) ==
  /\ Stage(h, "burn")
  /\ links' = links \ {calls[h].link}
  /\ To(h, "load")
  /\ UNCHANGED <<user, tokens, live, blocked, seen, access, used, cookie, undisturbed,
                 writes, begun>>

\* update_user by an administrator; resetting the second factor does the same
\* to the sessions.
AdminReset(h) ==
  /\ Begin(h, [Fresh EXCEPT !.op = "admin", !.stage = "write"])
  /\ UNCHANGED <<user, tokens, live, blocked, seen, access, links, used, cookie,
                 writes>>

\* The password is replaced and nobody is signed out.
WritePasswordKeepingSessions(h) ==
  /\ Stage(h, "write")
  /\ writes < MaxWrites
  /\ writes' = writes + 1
  /\ user' = [user EXCEPT !.password = writes + 1]
  /\ used' = used \cup ({calls[h].link} \ {None})
  /\ Ends(h)
  /\ UNCHANGED <<tokens, live, blocked, seen, access, links, cookie, undisturbed,
                 begun>>

\* Set and commit.  The user knows the current password.
WritePassword(h) ==
  /\ Stage(h, "write")
  /\ writes < MaxWrites
  /\ writes' = writes + 1
  /\ user' = [user EXCEPT !.password = writes + 1]
  /\ used' = used \cup ({calls[h].link} \ {None})
  /\ calls' = [calls EXCEPT ![h].password = writes + 1, ![h].stage = "scan"]
  /\ UNCHANGED <<tokens, live, blocked, seen, access, links, cookie, undisturbed,
                 begun>>

Overlapping(h) ==
  [g \in Handlers |-> IF g = h \/ calls[g] = None THEN calls[g]
                      ELSE [calls[g] EXCEPT !.overlapped = TRUE]]

\* revoke_all_refresh_tokens: SCAN for the user's live keys ...
Scan(h) ==
  /\ Stage(h, "scan")
  /\ calls' = [Overlapping(h) EXCEPT ![h].keys = live, ![h].stage = "delete"]
  /\ UNCHANGED <<user, tokens, live, blocked, seen, access, links, used, cookie,
                 undisturbed, writes, begun>>

\* ... and delete the ones it found.  The caller of change_password goes on
\* with a session of its own.
Delete(h) ==
  /\ Stage(h, "delete")
  /\ live' = live \ calls[h].keys
  /\ calls' = IF calls[h].op = "change"
              THEN [Overlapping(h) EXCEPT ![h].sid = 0, ![h].stage = "register"]
              ELSE [Overlapping(h) EXCEPT ![h] = None]
  /\ undisturbed' = (/\ undisturbed
                     /\ calls[h].mine \/ (cookie \notin calls[h].keys /\ MineInFlight = {}))
  /\ UNCHANGED <<user, tokens, blocked, seen, access, links, used, cookie, writes, begun>>

\* delete_user, update_user: tokens are left alone.
Switch ==
  /\ begun < MaxCalls
  /\ begun' = begun + 1
  /\ user' = [user EXCEPT !.active = ~user.active]
  /\ UNCHANGED <<tokens, live, blocked, seen, access, links, used, cookie, calls,
                 undisturbed, writes>>

-----------------------------------------------------------------------------
\* A browser that still holds a token from before tokens named their session;
\* or one that signed in, beside another device of the user.
Old(s) == [sid |-> s, opened |-> 0, slipped |-> FALSE]
Init ==
  /\ user = [active |-> TRUE, password |-> 0]
  /\ \/ tokens = <<Old(0)>>
     \/ tokens = <<Old(1), Old(2)>>
  /\ live = DOMAIN tokens /\ cookie = 1 /\ blocked = {}
  /\ seen = [s \in Sids |-> IF s \in 1 .. 2 /\ Len(tokens) = 2 THEN Idle ELSE 0]
  /\ access = [s \in Sids |-> IF \E j \in DOMAIN tokens : tokens[j].sid = s THEN Access ELSE 0]
  /\ links = {} /\ used = {}
  /\ calls = [h \in Handlers |-> None]
  /\ undisturbed = TRUE
  /\ over = {} /\ barred = FALSE
  /\ begun = 0 /\ writes = 0

Work(h) ==
  \/ CheckSession(h) \/ LoadUser(h) \/ Slide(h) \/ VerifyPassword(h)
  \/ Expire(h) \/ Revoke(h) \/ Register(h) \/ Open(h) \/ End(h)
  \/ Burn(h) \/ WritePassword(h) \/ Scan(h) \/ Delete(h)

Step ==
  \/ \E h \in Handlers :
       \/ Work(h) \/ AdminReset(h)
       \/ \E mine \in BOOLEAN : Login(h, mine)
       \/ \E j \in Jtis : Refresh(h, j) \/ Logout(h, j)
       \/ \E s \in Sids : ApiCall(h, s)
       \/ \E s \in Sids, mine \in BOOLEAN : ChangePassword(h, s, mine)
       \/ \E l \in Links : ResetPassword(h, l)
  \/ \E l \in Links : ForgotPassword(l)
  \/ Switch \/ Tick

Unchecked == {h \in InFlight : calls[h].stage \in {"session", "expire", "load", "verify"}}

Over(s) ==
  /\ seen[s] = 0
  /\ \E j \in DOMAIN tokens : tokens[j].sid = s
  /\ \A h \in InFlight : calls[h].sid = s => calls[h].stage \in {"session", "expire"}

Next ==
  /\ Step
  /\ over' = over \cup {s \in Sids \ {0} : Over(s)'}
  /\ barred' = (~user'.active /\ (barred \/ (InFlight \subseteq Unchecked)'))

Spec == Init /\ [][Next]_vars

-----------------------------------------------------------------------------
(* Every variable keeps its type.                                          *)
TypeOK ==
  /\ user \in User
  /\ tokens \in Seq(Token) /\ Len(tokens) <= MaxTokens
  /\ live \subseteq DOMAIN tokens /\ blocked \subseteq DOMAIN tokens
  /\ seen \in [Sids -> 0 .. Idle] /\ access \in [Sids -> 0 .. Access]
  /\ links \subseteq Links /\ used \subseteq Links
  /\ cookie \in DOMAIN tokens \cup {None}
  /\ calls \in [Handlers -> Call \cup {None}]
  /\ undisturbed \in BOOLEAN /\ over \subseteq Sids /\ barred \in BOOLEAN
  /\ begun \in 0 .. MaxCalls /\ writes \in 0 .. MaxWrites

(* The idle timeout and logout are final: a session that was over, with no *)
(* call of it past its check, stays over, whatever tokens of it are        *)
(* presented.  (A call past its check may still slide the window once.)    *)
OverStaysOver == \A s \in over : seen[s] = 0

(* "Every other session is signed out", "a reset password must also end    *)
(* the sessions opened with the old one": once the sweep is through, a     *)
(* token whose session was opened with an older password is not valid,     *)
(* unless a call that was in flight during the sweep minted it (or an      *)
(* ancestor of it).                                                        *)
OldSessionsEnd ==
  \A j \in live :
    \/ ~IsRefreshJtiValid(j)
    \/ tokens[j].opened = user.password
    \/ tokens[j].slipped
    \/ Sweeping # {}

(* A deactivated user gets nothing: no token is minted and no session is   *)
(* touched, once the calls that were past their check are through.         *)
NothingForInactive ==
  [][barred /\ barred' => Len(tokens') = Len(tokens)
                          /\ \A s \in Sids : seen'[s] <= seen[s]]_vars

(* "Single use" (reset_password), "a single-use reset link"                *)
(* (forgot_password): no password is set through a link through which one  *)
(* was set before.  The code does not keep it: two resets may both read    *)
(* the key before either deletes it.                                       *)
LinkUsedOnce ==
  [][\A h \in Handlers : WritePassword(h) => calls[h].link \notin used]_vars

(* What the order of read, burn and write keeps of it: a link through      *)
(* which a password was set is in Redis no more, so only calls that had    *)
(* read it before it was burnt can set another.                            *)
UsedLinkIsDead == used \cap links = {}

(* What keeps a reload from logging the user out: a browser that sends its *)
(* calls one by one and gets their answers holds a cookie that the server  *)
(* accepts, or none, as long as nobody signs the user out elsewhere.       *)
CookieWorks ==
  undisturbed /\ MineInFlight = {} /\ cookie # None => IsRefreshJtiValid(cookie)

=============================================================================
