----------------------------- MODULE FxaAccount -----------------------------
(* A Firefox account on one device: fxa-client/src (lib.rs, oauth.rs,        *)
(* device.rs, commands/send_tab.rs, send_tab.rs,                             *)
(* state_persistence.rs), the login state machine of FxaLogin, and the       *)
(* accounts servers as the client's requests use them.                       *)
(*                                                                           *)
(* Every FFI call holds the account's mutex from beginning to end, so calls  *)
(* do not interleave with each other; they do interleave with the server,    *)
(* with other devices and with the death of the process.  A call with one    *)
(* request that matters is one action; complete_oauth_flow, which makes up   *)
(* to five, runs in steps (`op`).  A request may fail with or without having *)
(* been carried out.                                                         *)
(*                                                                           *)
(* Refresh tokens are the numbers 1..MaxTokens in the order the server issues *)
(* them and 0 is none.  The scoped keys are reduced to the generation of the *)
(* oldsync key (0: none held), which changes when the user resets the        *)
(* password; a send-tab key pair is a number; tabs and names are left out.   *)
EXTENDS FxaLogin, Sequences, TLC

CONSTANTS
    Scopes,         \* OAuth scopes
    OldSync,        \* the scope that comes with the key send-tab needs
    MaxFlows,       \* login flows begun and not completed
    MaxTokens,      \* refresh tokens the server issues
    MaxCommands     \* tabs other devices send

ASSUME ScopesAssumption == OldSync \in Scopes

VARIABLES
    acct,       \* the fields of StateV2
    saved,      \* the StateV2 the application stored last
    flows,      \* flow_store
    op,         \* a complete_oauth_flow() under way
    ios,        \* cfg!(target_os = "ios")
    live,       \* server: the refresh tokens that are valid
    issued,     \* server: how many were issued
    devices,    \* server: the device record of each refresh token
    queue,      \* server: the commands sent, in order of their index
    gen,        \* server: the generation of the account's keys
    delivered,  \* the commands handed to the application
    dropped,    \* the commands parse_command() could not decrypt
    pairs,      \* send-tab key pairs made so far
    revoked,    \* tokens that died or came back by no doing of this client
    leaked,     \* tokens this client lost sight of through a failure
    keyLost     \* a crash lost a key pair that was not stored

clientVars == <<acct, saved, flows, op, ios>>
serverVars == <<live, issued, devices, queue, gen>>
historyVars == <<delivered, dropped, pairs, revoked, leaked, keyLost>>
vars == <<loginVars, clientVars, serverVars, historyVars>>

Tokens == 1..MaxTokens
NoDevice == [name |-> "none"]
Idle == [step |-> "idle"]

\* struct OAuthFlow, with what the URL asks the server for and the refresh
\* token that was held when the flow began.
OAuthFlow == [scopes : SUBSET Scopes, keys : BOOLEAN, base : 0..MaxTokens, pairing : BOOLEAN]

\* struct StateV2.
State == [token : 0..MaxTokens, scopes : SUBSET Scopes, keys : 0..MaxFaults + 1,
          last : 0..MaxCommands, pair : 0..MaxFaults + 1, caps : BOOLEAN]

\* struct DeviceResponseCommon: the registered send-tab command (the key pair
\* and the key generation it is encrypted with).
Device == [name : {"device"}, pair : 0..MaxFaults + 1, kid : 0..MaxFaults + 1]

\* with_config()
NewState == [token |-> 0, scopes |-> {}, keys |-> 0, last |-> 0, pair |-> 0, caps |-> FALSE]

\* upgrade_state(): what an older release stored holds a refresh token with
\* its keys, and neither a device nor a command index.
UpgradedState == [NewState EXCEPT !.token = 1, !.scopes = {OldSync}, !.keys = 1]

Init ==
    /\ LoginInit
    /\ acct \in {NewState} \cup {state \in {UpgradedState} : login = "Unknown"}
    /\ saved = [state |-> acct, login |-> login]
    /\ flows = {}
    /\ op = Idle
    /\ ios \in BOOLEAN
    /\ issued = acct.token
    /\ live = 1..issued
    /\ devices = [t \in Tokens |-> NoDevice]
    /\ queue = <<>>
    /\ gen = 1
    /\ delivered = {}
    /\ dropped = {}
    /\ pairs = 0
    /\ revoked = {}
    /\ leaked = {}
    /\ keyLost = FALSE

\* Every FFI entry point locks the account for the whole call.
Unlocked == op = Idle /\ cur = Resting

\* make_request: an answer that is not a success or a 304 is a RemoteError;
\* the server accepts a refresh token that is valid.
Accepted(token) == token \in live

\* update_device: the fields the request names replace those of the record, which the
\* first update creates.
UpdateDevice(token, update) ==
    devices' = [devices EXCEPT ![token] =
        update @@ (IF @ = NoDevice THEN [name |-> "device", pair |-> 0, kid |-> 0] ELSE @)]

\* destroy_oauth_token of a refresh token; its device goes with it.
Destroy(tokens) ==
    /\ live' = live \ tokens
    /\ devices' = [t \in Tokens |-> IF t \in tokens THEN NoDevice ELSE devices[t]]

-----------------------------------------------------------------------------
(* Logging in: oauth.rs.                                                     *)

\* oauth_flow(): a new entry of flow_store under a random state.  An account
\* that signed in with its password is taken not to use OAuth flows as well.
StartFlow(scopes, keys, pairing) ==
    /\ Unlocked
    /\ login = "Unknown"
    /\ Cardinality(flows) < MaxFlows
    /\ flows' = flows \cup {[scopes |-> scopes, keys |-> keys, base |-> acct.token,
                             pairing |-> pairing]}
    /\ UNCHANGED <<loginVars, acct, saved, op, ios, serverVars, historyVars>>

\* begin_oauth_flow(): the scope asked for and those already held.  Keys are
\* asked for with the scope that has one.
BeginOAuthFlow ==
    \E scope \in Scopes : StartFlow({scope} \cup acct.scopes, scope = OldSync, FALSE)

\* begin_pairing_flow(): the scopes asked for alone, with keys.
BeginPairingFlow == StartFlow(Scopes, TRUE, TRUE)

\* decrypt_keys_jwe(): the keys of the account as the server wrapped them for
\* the flow.
DecryptedKeys == gen

\* The keys of an answer to a flow that asked for them.
InsertKeys(flow) == IF flow.keys THEN [acct EXCEPT !.keys = DecryptedKeys] ELSE acct

\* complete_oauth_flow() up to the refresh token: the flow is used up; the
\* request fails, or it is carried out and its answer is lost or does not have the
\* keys that were asked for, or the answer has keys and no refresh token, or all is well.
CompleteOAuthFlow ==
    /\ Unlocked
    /\ issued < MaxTokens
    /\ \E flow \in flows :
          /\ flows' = flows \ {flow}
          /\ \/ /\ Fault
                /\ acct' \in {acct, InsertKeys(flow)}
                /\ UNCHANGED <<op, live, issued, leaked>>
             \/ /\ Fault
                /\ issued' = issued + 1
                /\ live' = live \cup {issued'}
                /\ leaked' = leaked \cup {issued'}
                /\ UNCHANGED <<acct, op>>
             \/ /\ issued' = issued + 1
                /\ live' = live \cup {issued'}
                /\ acct' = InsertKeys(flow)
                /\ op' = [step |-> IF acct.token = 0 THEN "store" ELSE "device",
                          new |-> issued', flow |-> flow, device |-> NoDevice]
                /\ UNCHANGED <<leaked, faults>>
    /\ UNCHANGED <<login, cur, expired, ages, saved, ios, devices, queue, gen,
                   delivered, dropped, pairs, revoked, keyLost>>

\* get_current_device()?: the device of the old token, whose refusal ends the
\* call with an error.
GrabDevice ==
    /\ op.step = "device"
    /\ \/ /\ Accepted(acct.token)
          /\ op' = [op EXCEPT !.step = "destroy", !.device = devices[acct.token]]
          /\ UNCHANGED <<leaked, faults>>
       \/ /\ Accepted(acct.token) => Fault
          /\ ~Accepted(acct.token) => UNCHANGED faults
          /\ op' = Idle
          /\ leaked' = leaked \cup {op.new}
    /\ UNCHANGED <<login, cur, expired, ages, acct, saved, flows, ios, serverVars,
                   delivered, dropped, pairs, revoked, keyLost>>


\* The old token is destroyed; a failure is logged.
DestroyOldToken ==
    /\ op.step = "destroy"
    /\ op' = [op EXCEPT !.step = IF op.device = NoDevice THEN "store" ELSE "replace"]
    /\ \/ Destroy({acct.token}) /\ UNCHANGED <<leaked, faults>>
       \/ Fault /\ leaked' = leaked \cup {acct.token} /\ UNCHANGED <<live, devices>>
    /\ UNCHANGED <<login, cur, expired, ages, acct, saved, flows, ios, issued,
                   queue, gen, delivered, dropped, pairs, revoked, keyLost>>

\* replace_device(): an update with the token the account holds, which is
\* still the old one; a failure is logged.
ReplaceDevice ==
    /\ op.step = "replace"
    /\ op' = [op EXCEPT !.step = "store"]
    /\ IF Accepted(acct.token) THEN UpdateDevice(acct.token, op.device) ELSE UNCHANGED devices
    /\ UNCHANGED <<loginVars, acct, saved, flows, ios, live, issued, queue, gen,
                   historyVars>>

\* The new refresh token takes the place of the old one.
StoreToken ==
    /\ op.step = "store"
    /\ acct' = [acct EXCEPT !.token = op.new, !.scopes = op.flow.scopes]
    /\ op' = Idle
    /\ UNCHANGED <<loginVars, saved, flows, ios, serverVars, historyVars>>

-----------------------------------------------------------------------------
(* The device and its commands: device.rs, send_tab.rs, commands/send_tab.rs. *)

\* generate_send_tab_command_data(): the key pair is made once and kept.
GeneratePair ==
    IF acct.pair # 0 THEN UNCHANGED pairs ELSE pairs' = pairs + 1

PairAfter == IF acct.pair # 0 THEN acct.pair ELSE pairs + 1

\* The command data: the public keys encrypted with the oldsync key.
CommandData == [pair |-> PairAfter, kid |-> acct.keys]

\* An update_device() of the calls below: refused, lost, or carried out.
RequestUpdate(update) ==
    \/ Accepted(acct.token) /\ UpdateDevice(acct.token, update) /\ (UNCHANGED faults \/ Fault)
    \/ ~Accepted(acct.token) /\ UNCHANGED <<devices, faults>>
    \/ Fault /\ UNCHANGED devices

\* initialize_device() with the send-tab capability: without the oldsync key the
\* call ends after the key pair was made.
InitializeDevice ==
    /\ Unlocked
    /\ GeneratePair
    /\ IF acct.keys = 0
       THEN /\ acct' = [acct EXCEPT !.pair = PairAfter]
            /\ UNCHANGED <<devices, faults>>
       ELSE /\ acct' = [acct EXCEPT !.pair = PairAfter, !.caps = TRUE]
            /\ RequestUpdate(CommandData)
    /\ UNCHANGED <<login, cur, expired, ages, saved, flows, op, ios, live, issued,
                   queue, gen, delivered, dropped, revoked, leaked, keyLost>>

\* ensure_capabilities() and register_command().
EnsureCapabilities ==
    /\ Unlocked
    /\ acct.caps
    /\ GeneratePair
    /\ acct' = [acct EXCEPT !.pair = PairAfter]
    /\ IF acct.keys = 0 THEN UNCHANGED <<devices, faults>> ELSE RequestUpdate(CommandData)
    /\ UNCHANGED <<login, cur, expired, ages, saved, flows, op, ios, live, issued,
                   queue, gen, delivered, dropped, revoked, leaked, keyLost>>

\* set_push_subscription() and set_device_name(), whose data is left out: the
\* rest of the record stays as it is.
SetPushSubscription ==
    /\ Unlocked
    /\ RequestUpdate([name |-> "device"])
    /\ UNCHANGED <<login, cur, expired, ages, clientVars, live, issued, queue, gen, historyVars>>

\* SendTabKeysPayload::decrypt(): the target's command data has to be
\* encrypted with the key the sender holds.
CanReadKeys(device, key) == device.kid = key

\* build_send_command(): the tab is encrypted for the target's key pair.
BuildSendCommand(device) == device.pair

\* send_tab() on another device of the account.
SendTab ==
    /\ Len(queue) < MaxCommands
    /\ \E t \in live :
          /\ devices[t] # NoDevice
          /\ devices[t].pair # 0
          /\ CanReadKeys(devices[t], gen)
          /\ queue' = Append(queue, [to |-> t, pair |-> BuildSendCommand(devices[t])])
    /\ UNCHANGED <<loginVars, clientVars, live, issued, devices, gen, historyVars>>

\* pending_commands: the commands for a token's device from an index on.
Pending(token, index) == {i \in index..Len(queue) : queue[i].to = token}

\* handle_send_tab_command(): the tab decrypts with the key pair it is for.
Readable(i) == queue[i].pair = acct.pair

\* Mutant: the newest index is taken for that of the answer.
HandleToNewest(commands, index) ==
    LET readable == {i \in commands : Readable(i)}
    IN  /\ delivered' = delivered \cup readable
        /\ dropped' = dropped \cup (commands \ readable)
        /\ acct' = [acct EXCEPT !.last = Len(queue)]
        /\ UNCHANGED <<loginVars, saved, flows, op, ios, serverVars, pairs,
                       revoked, leaked, keyLost>>

\* parse_commands_messages(): a command that cannot be decrypted is logged and
\* left out; then last_handled_command moves to the index of the answer.
HandleCommands(commands, index) ==
    LET readable == {i \in commands : Readable(i)}
    IN  /\ delivered' = delivered \cup readable
        /\ dropped' = dropped \cup (commands \ readable)
        /\ acct' = [acct EXCEPT !.last = index]
        /\ UNCHANGED <<loginVars, saved, flows, op, ios, serverVars, pairs,
                       revoked, leaked, keyLost>>

\* poll_device_commands(), and handle_push_message() other than on iOS: an
\* answer may stop short of the newest command.
PollDeviceCommands ==
    /\ Unlocked
    /\ Accepted(acct.token)
    /\ LET pending == Pending(acct.token, acct.last + 1)
       IN  \E index \in pending : HandleCommands({i \in pending : i <= index}, index)

\* fetch_device_command() for handle_push_message() on iOS: the one command the
\* message names.
FetchDeviceCommand ==
    /\ ios
    /\ Unlocked
    /\ Accepted(acct.token)
    /\ \E index \in Pending(acct.token, 1) : HandleCommands({index}, index)

-----------------------------------------------------------------------------
(* The application, the user and the process.                                *)

\* to_json(): the application stores the state.
Persist ==
    /\ Unlocked
    /\ saved' = [state |-> acct, login |-> login]
    /\ saved' # saved
    /\ UNCHANGED <<loginVars, acct, flows, op, ios, serverVars, historyVars>>

\* The process dies; from_json() brings back what was stored, with empty caches.
Restart ==
    /\ Fault
    /\ acct' = saved.state
    /\ login' = saved.login
    /\ cur' = Resting
    /\ expired' \in SUBSET CASE login' = "Married" -> {"pair", "cert"}
                            [] login' = "CohabitingAfterKeyPair" -> {"pair"}
                            [] OTHER -> {}
    /\ flows' = {}
    /\ op' = Idle
    /\ revoked' = revoked \cup {acct'.token}
    /\ leaked' = leaked \cup (({acct.token} \cup (IF op = Idle THEN {} ELSE {op.new})) \ {acct'.token})
    /\ keyLost' = (keyLost \/ acct.pair # acct'.pair)
    /\ UNCHANGED <<ages, saved, ios, serverVars, delivered, dropped, pairs>>

\* The user disconnects a device, or resets the password: the keys of the
\* account change and every token is revoked.
Revoke ==
    /\ Fault
    /\ live # {}
    /\ \/ \E t \in live : Destroy({t}) /\ revoked' = revoked \cup {t} /\ UNCHANGED gen
       \/ Destroy(live) /\ revoked' = revoked \cup live /\ gen' = gen + 1
    /\ UNCHANGED <<login, cur, expired, ages, clientVars, issued, queue, delivered, dropped, pairs,
                   leaked, keyLost>>

LoginStep ==
    /\ op = Idle
    /\ Advance \/ AdvanceOne
    /\ UNCHANGED <<clientVars, serverVars, historyVars>>

KeysAge == Age /\ UNCHANGED <<clientVars, serverVars, historyVars>>

CompleteStep ==
    \/ GrabDevice
    \/ DestroyOldToken
    \/ ReplaceDevice
    \/ StoreToken

Next ==
    \/ LoginStep
    \/ KeysAge
    \/ BeginOAuthFlow
    \/ BeginPairingFlow
    \/ CompleteOAuthFlow
    \/ CompleteStep
    \/ InitializeDevice
    \/ EnsureCapabilities
    \/ SetPushSubscription
    \/ SendTab
    \/ PollDeviceCommands
    \/ FetchDeviceCommand
    \/ Persist
    \/ Restart
    \/ Revoke

\* A call runs to its end, an application polls semi-regularly and advances the
\* login before it uses it.
Fairness ==
    /\ WF_vars(CompleteStep)
    /\ WF_vars(LoginStep)
    /\ WF_vars(PollDeviceCommands)

Spec == Init /\ [][Next]_vars /\ Fairness

-----------------------------------------------------------------------------
\* The type invariant.
TypeOK ==
    /\ LoginTypeOK
    /\ acct \in State
    /\ saved \in [state : State, login : LoginState]
    /\ flows \subseteq OAuthFlow
    /\ op = Idle \/ op.new \in Tokens
    /\ live \subseteq Tokens
    /\ devices \in [Tokens -> Device \cup {NoDevice}]


\* Except on iOS, no command for this device is passed over: whatever lies at
\* or before last_handled_command was handed to the application or could not be
\* decrypted, across partial answers, failed requests, restarts and new logins.
\* And a tab can always be read, unless a restart lost the key pair that had
\* been registered: neither a new login, nor a change of the account's keys,
\* nor a lost answer puts up a key the account does not hold.
TabsArrive ==
    /\ ~ios => Pending(acct.token, 1) \cap (1..acct.last) \subseteq delivered \cup dropped
    /\ dropped # {} => keyLost

Delivered(i) == i \in delivered \cup dropped \/ i \notin Pending(acct.token, 1)

\* A command for a device that stays connected reaches the application, and
\* advance() comes to an end: a login that holds its keys becomes Married
\* again, or falls back to a state that asks for a new login, or a restart
\* takes it back to before it had the keys.
EventuallyUsable ==
    /\ \A i \in 1..MaxCommands :
         (~ios /\ i \in Pending(acct.token, 1) /\ Accepted(acct.token)) ~>
             (Delivered(i) \/ ~Accepted(acct.token))
    /\ []<>(cur = Resting /\ login \notin Cohabiting)

\* A login in which every request is answered ends with the new token in use:
\* "The caller should then start the OAuth Flow again" (FirefoxAccount.kt) when
\* the token it holds is refused.
LoginRenewsToken ==
    [][op # Idle /\ op' = Idle /\ faults' = faults
       => acct'.token = op.new]_vars

\* "Destroying a refresh token also destroys its associated device, grab the
\* device information for replication later" (oauth.rs): the device of the old
\* token is registered again under the new one.
DeviceReplicated ==
    [][op # Idle /\ op' = Idle /\ faults' = faults /\ op.device # NoDevice
       => devices'[op.new] = op.device]_vars
=============================================================================
