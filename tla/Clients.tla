-------------------------------- MODULE Clients --------------------------------
(***************************************************************************)
(* API clients: their secrets, and the tokens a secret buys.               *)
(*                                                                         *)
(* A token names the version of the secret it was bought with and the      *)
(* scopes it was granted; a call with it is checked against the client's   *)
(* row as it is now.  Handlers load the row, and write back the columns    *)
(* that differ from their copy, so two rotations that overlap count the    *)
(* version up once.                                                        *)
(*                                                                         *)
(* A secret is the number of the rotation that made it.  The life of a     *)
(* token and the names of clients are left out; hashes do what they        *)
(* promise.                                                                *)
(***************************************************************************)
EXTENDS Calls

CONSTANTS
  Clients,
  Scopes,             \* ApiClient.SCOPES
  ClientCalls         \* calls about clients that may be in flight

ASSUME ClientsAssumption == None \notin Clients

VARIABLES
  clients,            \* api_clients, None where there is no row
  tokens,             \* tokens given out, with the secret that bought them
  secrets,            \* number of secrets made so far
  clientCalls,        \* the calls in flight, or None
  rotatedOver         \* history: clients whose rotations overlapped

clientVars == <<clients, tokens, secrets, clientCalls, rotatedOver>>

Client  == [secret : Nat, version : Nat, scopes : SUBSET Scopes, active : BOOLEAN]
Token   == [client : Clients, version : Nat, scopes : SUBSET Scopes, secret : Nat]

ASSUME RowAssumption == None \notin Client

Registered(c) == clients[c] # None
BeginClient(h, call) ==
  clientCalls' = [clientCalls EXCEPT ![h] = call]
EndClient(h) == clientCalls' = [clientCalls EXCEPT ![h] = None]
Doing(h, op) == clientCalls[h] # None /\ clientCalls[h].op = op

\* create: a new row, and the first secret.
CreateClient(c, scopes) ==
  /\ Spend("client") /\ ~Registered(c)
  /\ clients' = [clients EXCEPT ![c] =
       [secret |-> secrets + 1, version |-> 1, scopes |-> scopes, active |-> TRUE]]
  /\ secrets' = secrets + 1
  /\ UNCHANGED <<tokens, clientCalls, rotatedOver>>

\* issue_token up to authenticate_client: the row is loaded, the secret fits.
BeginToken(h, c, secret) ==
  /\ Spend("client") /\ Takes(clientCalls, h)
  /\ Registered(c) /\ clients[c].active /\ clients[c].secret = secret
  /\ BeginClient(h, [op |-> "token", client |-> c, copy |-> clients[c]])
  /\ UNCHANGED <<clients, tokens, secrets, rotatedOver>>

\* create_client_token from the loaded copy, for all its scopes or for some.
MintToken(h, scopes) ==
  /\ Doing(h, "token")
  /\ LET copy == clientCalls[h].copy IN
     /\ scopes \subseteq copy.scopes
     /\ tokens' = tokens \cup {[client |-> clientCalls[h].client, version |-> copy.version,
                                scopes |-> scopes, secret |-> copy.secret]}
  /\ EndClient(h)
  /\ UNCHANGED <<clients, secrets, rotatedOver, budget>>

BeginRotate(h, c) ==
  /\ Spend("client") /\ Takes(clientCalls, h)
  /\ Registered(c)
  /\ BeginClient(h, [op |-> "rotate", client |-> c, copy |-> clients[c]])
  /\ UNCHANGED <<clients, tokens, secrets, rotatedOver>>

\* The tokens are thought to end with the secret.
RotateSecretAlone(h) ==
  /\ Doing(h, "rotate")
  /\ LET c == clientCalls[h].client IN
     /\ clients' = [clients EXCEPT ![c].secret = secrets + 1]
     /\ rotatedOver' = rotatedOver
  /\ secrets' = secrets + 1
  /\ EndClient(h)
  /\ UNCHANGED <<tokens, budget>>

\* rotate_secret: a new secret, and the version of the copy plus one.
RotateSecret(h) ==
  /\ Doing(h, "rotate")
  /\ LET c == clientCalls[h].client
         copy == clientCalls[h].copy IN
     /\ clients' = [clients EXCEPT ![c].secret = secrets + 1, ![c].version = copy.version + 1]
     /\ rotatedOver' = IF clients[c].version = copy.version THEN rotatedOver
                       ELSE rotatedOver \cup {c}
  /\ secrets' = secrets + 1
  /\ EndClient(h)
  /\ UNCHANGED <<tokens, budget>>

BeginUpdateClient(h, c, wanted) ==
  /\ Spend("client") /\ Takes(clientCalls, h)
  /\ Registered(c)
  /\ BeginClient(h, [op |-> "update", client |-> c, copy |-> clients[c], wanted |-> wanted])
  /\ UNCHANGED <<clients, tokens, secrets, rotatedOver>>

\* update_client: the columns sent that differ from the copy.
UpdateClient(h) ==
  /\ Doing(h, "update")
  /\ LET call == clientCalls[h]
         dirty == {f \in DOMAIN call.wanted : call.wanted[f] # call.copy[f]} IN
     clients' = [clients EXCEPT ![call.client] =
       [f \in DOMAIN @ |-> IF f \in dirty THEN call.wanted[f] ELSE @[f]]]
  /\ EndClient(h)
  /\ UNCHANGED <<tokens, secrets, rotatedOver, budget>>

\* get_current_client: whether a call that needs a scope gets through now.
Passes(token, scope) ==
  LET row == clients[token.client] IN
  /\ Registered(token.client) /\ row.active /\ token.version = row.version
  /\ scope \in token.scopes \cap row.scopes

ClientsInit ==
  /\ \E granted \in SUBSET Scopes \ {{}} :
       clients \in [Clients -> {None, [secret |-> 1, version |-> 1, scopes |-> granted,
                                       active |-> TRUE]}]
  /\ tokens = {[client |-> c, version |-> 1, scopes |-> clients[c].scopes, secret |-> 1] :
                 c \in {c \in Clients : Registered(c)}}
  /\ secrets = 1
  /\ clientCalls = [h \in ClientCalls |-> None]
  /\ rotatedOver = {}

\* CreateClient and UpdateClient bodies: scopes are never an empty list.
Changes == [active : BOOLEAN] \cup [scopes : SUBSET Scopes \ {{}}]

ClientsNext ==
  \/ \E c \in Clients, scopes \in SUBSET Scopes \ {{}} : CreateClient(c, scopes)
  \/ \E h \in ClientCalls :
       \/ \E scopes \in SUBSET Scopes \ {{}} : MintToken(h, scopes)
       \/ RotateSecret(h) \/ UpdateClient(h)
       \/ \E c \in Clients :
            \/ \E secret \in 1 .. secrets : BeginToken(h, c, secret)
            \/ BeginRotate(h, c)
            \/ \E wanted \in Changes : BeginUpdateClient(h, c, wanted)

-----------------------------------------------------------------------------
(* "The old one, and every token minted with it, stops working": a token   *)
(* that gets through was bought with the secret in force, unless two       *)
(* rotations of the client overlapped.                                     *)
TokenOfCurrentSecret ==
  \A t \in tokens, scope \in Scopes :
    Passes(t, scope) /\ t.client \notin rotatedOver => t.secret = clients[t.client].secret

=============================================================================
