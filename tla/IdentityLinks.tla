---------------------------- MODULE IdentityLinks ----------------------------
(***************************************************************************)
(* One client of the SDK and the identity registries it reaches            *)
(* (src/modules/identity/index.ts, the identity methods of src/index.ts):  *)
(* linkApp's signed authorisations, the gateway's co-signatures of data,   *)
(* the transactions that redeem them, and the links they make and remove.  *)
(*                                                                         *)
(* The registry is external: it decodes a transaction by the ABI, wants    *)
(* the consent of both parties, by sending the transaction or by a         *)
(* signature with a nonce and a deadline under the registry's own domain,  *)
(* and counts a signer's nonce up with every link it signed for            *)
(* (docs/identity/concepts.md).  Data it registers on the gateway's        *)
(* signature, before its deadline, for who sends the transaction.  The     *)
(* popup that answers linkApp reads the nonce and signs, and the one that  *)
(* answers registerUserData registers; Popup models how an answer comes.   *)
(***************************************************************************)
EXTENDS ClientActions, RegistryInterface, FiniteSets

CONSTANTS
  Calls,      \* the writes made
  Clients,    \* what the client may be
  Nets,       \* the chains its wallet may be connected to
  MaxSigned,  \* bound: signatures given, the gateway's with them
  MaxTime,    \* bound: the clock
  Ttl         \* how long a signature lasts

\* A client's wallet may be on its chain, and the registry of an override is on one of those.
ASSUME IdentityLinksAssumption ==
  /\ IsFiniteSet(Calls) /\ MaxSigned \in Nat \ {0} /\ MaxTime \in Nat /\ Ttl \in Nat
  /\ Nets \subseteq Chains
  /\ \A c \in Clients : WalletActionsOf(c) =>
       /\ c.chain \in Nets \cup {None}
       /\ c.overrides.identityRegistry \in {NoAddress} \cup {Address("custom", n) : n \in Nets}

\* What a client is given of its own is none of the contracts the SDK looks up.
ASSUME GivenAssumption ==
  \A c \in Clients : {c.policy.contract, c.overrides.taskManagerAddress.contract,
                      c.overrides.gatewayApiUrl} \cap AddressKeys = {}

Owner == "owner"
User == "user"
App == "app"
Accounts == {Owner, User, "relayer"}
Domains == {"kyc", "age"}
LinkDomains == {"kyc"}   \* those the links are of
Refs == {"r1", "r2"}     \* what the gateway calls the data it stores

\* The owner's data, by the domain and the reference; the popup uploads other data.
Uploads == {[domain |-> "kyc", ref |-> "r2"], [domain |-> "age", ref |-> "r1"]}

Registries == {IDENTITY_REGISTRY[c] : c \in Nets} \cup {Address("custom", c) : c \in Nets}

VARIABLES
  client,    \* the client
  on,        \* the chain its wallet is connected to
  now,       \* the clock
  nonces,    \* registry -> account -> its nonce
  links,     \* registry -> its links
  data,      \* registry -> the data references registered
  signed,    \* the signatures given
  cosigned,  \* those of the gateway
  asked,     \* call -> what it is
  stage,     \* call -> where it is
  to,        \* call -> the registry its transaction goes to
  net,       \* call -> the chain the wallet is asked to send it on, then the one it is sent on
  payloadId  \* the last id of a request to the popup

registry == <<nonces, links, data>>
given == <<signed, cosigned>>
vars == <<client, on, now, registry, given, asked, stage, to, net, payloadId>>

\* Whose consent, in which role, for which link, under which registry's domain.
Signatures ==
  [by : {Owner, User}, as : {"signer", "user"}, registry : Registries \cup {NoAddress},
   nonce : 0..Cardinality(Calls), deadline : 0..MaxTime + Ttl]

\* That the gateway has the data of an owner, under a reference, for a domain and a registry.
Cosignatures ==
  [owner : Accounts, registry : Registries \cup {NoAddress}, domain : Domains, ref : Refs,
   deadline : 0..MaxTime + Ttl]

\* The parameters of a call, by the names its caller gives them.  Who signs has the signature in
\* them and what goes with it: a nonce and a deadline, or the domain, the reference and a deadline.
Requests ==
  [fn : RegistryWrites, account : Accounts, owner : Signatures, user : Signatures,
   gateway : Cosignatures]

Nothing ==
  [fn |-> "unlinkIdentityAsUser", account |-> User,
   gateway |-> [owner |-> Owner, registry |-> NoAddress, domain |-> "kyc", ref |-> "r1", deadline |-> 0],
   owner |-> [by |-> Owner, as |-> "signer", registry |-> NoAddress, nonce |-> 0, deadline |-> 0],
   user |-> [by |-> User, as |-> "user", registry |-> NoAddress, nonce |-> 0, deadline |-> 0]]

LinksThere == {Link(Owner, App, u, d) : u \in Accounts, d \in LinkDomains}
DataThere == {Bound(o, d, r) : o \in Accounts, d \in Domains, r \in Refs}
Stages == {"idle", "threw", "checking", "prompt", "sent", "done", "reverted"}

LinksTypeOK ==
  /\ client \in Clients /\ on \in Nets /\ now \in 0..MaxTime
  /\ nonces \in [Registries -> [Accounts -> 0..Cardinality(Calls)]]
  /\ links \in [Registries -> SUBSET LinksThere]
  /\ data \in [Registries -> SUBSET DataThere]
  /\ signed \subseteq Signatures /\ cosigned \subseteq Cosignatures
  /\ asked \in [Calls -> Requests]
  /\ stage \in [Calls -> Stages]
  /\ to \in [Calls -> Registries \cup {NoAddress}]
  /\ net \in [Calls -> Nets \cup {None}]
  /\ payloadId \in 0..MaxSigned

Init ==
  /\ client \in {c \in Clients : WalletActionsOf(c)} /\ on \in Nets /\ now = 0
  /\ nonces = [r \in Registries |-> [a \in Accounts |-> 0]]
  /\ links = [r \in Registries |-> {}]
  /\ data = [r \in Registries |-> {}]
  /\ signed = {} /\ cosigned = {} /\ asked = [k \in Calls |-> Nothing]
  /\ stage = [k \in Calls |-> "idle"]
  /\ to = [k \in Calls |-> NoAddress] /\ net = [k \in Calls |-> None]
  /\ payloadId = 0

-----------------------------------------------------------------------------
(* The positional arguments of each write. *)

registerIdentityData(p) == <<p.gateway.domain, p.gateway.ref, p.gateway, p.gateway.deadline>>

linkIdentityAsSignerAndUser(p) == <<App, LinkDomains>>

linkIdentityAsSigner(p) == <<App, LinkDomains, p.user.by, p.user, p.user.nonce, p.user.deadline>>

linkIdentityAsUser(p) == <<p.owner.by, App, LinkDomains, p.owner, p.owner.nonce, p.owner.deadline>>

\* The two parties change places.
linkIdentity_UserFirst(p) ==
  <<p.user.by, p.owner.by, App, LinkDomains, p.owner, p.owner.nonce, p.owner.deadline,
    p.user, p.user.nonce, p.user.deadline>>

linkIdentity(p) ==
  <<p.owner.by, p.user.by, App, LinkDomains, p.owner, p.owner.nonce, p.owner.deadline,
    p.user, p.user.nonce, p.user.deadline>>

unlinkIdentityAsSigner(p) == <<p.user.by, App, LinkDomains>>

unlinkIdentityAsUser(p) == <<App, LinkDomains>>

Args(p) ==
  CASE p.fn = "registerIdentityData" -> registerIdentityData(p)
    [] p.fn = "linkIdentity" -> linkIdentity(p)
    [] p.fn = "linkIdentityAsSigner" -> linkIdentityAsSigner(p)
    [] p.fn = "linkIdentityAsSignerAndUser" -> linkIdentityAsSignerAndUser(p)
    [] p.fn = "linkIdentityAsUser" -> linkIdentityAsUser(p)
    [] p.fn = "unlinkIdentityAsSigner" -> unlinkIdentityAsSigner(p)
    [] p.fn = "unlinkIdentityAsUser" -> unlinkIdentityAsUser(p)

-----------------------------------------------------------------------------
(* The contract. *)

\* What a transaction asks of it: the parties of the link, their signatures (of a party that
\* sends it, none is needed), and what a registration registers on whose word.
Understood(fn, sender, args) ==
  LET c == Decode(fn, args)
      Has(name) == name \in DOMAIN c
      Sent(signature, nonce, deadline) ==
        IF Has(signature) THEN <<c[signature], c[nonce], c[deadline]>> ELSE <<>>
  IN  [owner |-> IF Has("_identityOwner") THEN c["_identityOwner"]
                 ELSE IF fn = "unlinkIdentityAsUser" THEN None ELSE sender,
       user |-> IF Has("_clientUser") THEN c["_clientUser"] ELSE sender,
       ownerSigned |-> IF fn = "linkIdentityAsUser" THEN Sent("_signature", "_nonce", "_deadline")
                       ELSE Sent("_identityOwnerSignature", "_identityOwnerNonce", "_identityOwnerDeadline"),
       userSigned |-> IF fn = "linkIdentityAsSigner" THEN Sent("_signature", "_nonce", "_deadline")
                      ELSE Sent("_clientUserSignature", "_clientUserNonce", "_clientUserDeadline"),
       registers |-> IF Has("_dataRefId")
                     THEN [domain |-> c["_identityDomain"], ref |-> c["_dataRefId"],
                           signature |-> c["_gatewaySignature"], deadline |-> c["_deadline"]]
                     ELSE None]

\* A party that does not send the transaction has signed for this link: every signature here is
\* for the link of Owner with User.
Consents(r, sent, by, as) ==
  sent # <<>> =>
    LET s == sent[1]
    IN  /\ s.by = by /\ s.as = as /\ s.registry = r /\ s.nonce = sent[2] /\ s.deadline = sent[3]
        /\ ~InvalidAccountNonce(sent[2], nonces[r][by]) /\ ~SignatureExpired(sent[3], now)

\* The gateway has signed for this data of the sender, in this registry.
Cosigned(r, owner, data1) ==
  LET s == data1.signature
  IN  /\ s.owner = owner /\ s.registry = r /\ s.domain = data1.domain /\ s.ref = data1.ref
      /\ s.deadline = data1.deadline /\ ~SignatureExpired(data1.deadline, now)

LinkOf(t) == Link(t.owner, App, t.user, "kyc")

Links(fn) ==
  fn \in {"linkIdentity", "linkIdentityAsSigner", "linkIdentityAsSignerAndUser", "linkIdentityAsUser"}

HasData(r, owner) ==
  \A domain \in LinkDomains : \E d \in data[r] : d.identityOwner = owner /\ d.identityDomain = domain

Accepts(r, fn, t) ==
  CASE Links(fn) ->
         /\ HasData(r, t.owner) /\ ~LinkAlreadyExists(links[r], App, t.user, LinkDomains)
         /\ t.ownerSigned \o t.userSigned # <<>> => {t.owner, t.user} = {Owner, User}
         /\ Consents(r, t.ownerSigned, t.owner, "signer") /\ Consents(r, t.userSigned, t.user, "user")
    [] fn = "unlinkIdentityAsSigner" -> LinkOf(t) \in links[r]
    [] fn = "unlinkIdentityAsUser" -> LinkAlreadyExists(links[r], App, t.user, LinkDomains)
    [] fn = "registerIdentityData" -> Cosigned(r, t.owner, t.registers)

\* A later registration of the same domain replaces an earlier one.
Registered(bound, owner, domain, ref) ==
  {d \in bound : d.identityOwner # owner \/ d.identityDomain # domain} \cup {Bound(owner, domain, ref)}

Applies(r, fn, t) ==
  /\ nonces' = IF Links(fn)
               THEN [nonces EXCEPT ![r] = [a \in Accounts |->
                       @[a] + IF \/ t.ownerSigned # <<>> /\ a = t.owner
                                 \/ t.userSigned # <<>> /\ a = t.user THEN 1 ELSE 0]]
               ELSE nonces
  /\ links' = [links EXCEPT ![r] =
                 IF Links(fn) THEN @ \cup {LinkOf(t)}
                 ELSE IF fn = "registerIdentityData" THEN @
                 ELSE {l \in @ : l.policyClientUser # t.user}]
  /\ data' = IF fn = "registerIdentityData"
             THEN [data EXCEPT ![r] = Registered(@, t.owner, t.registers.domain, t.registers.ref)]
             ELSE data

-----------------------------------------------------------------------------
(* The client. *)

\* The registry that the popup is given, the chain's own if none.
PopupRegistry(method) == Given(PopupParams(client, method).to, resolveIdentityRegistry(client))

MaySign == Cardinality(signed) + Cardinality(cosigned) < MaxSigned /\ client.chain # None

\* The popup signs the owner's link.
LinkApp ==
  /\ MaySign
  /\ LET r == PopupRegistry("linkApp")
     IN  signed' = signed \cup {[by |-> Owner, as |-> "signer", registry |-> r,
                                nonce |-> nonces[r][Owner], deadline |-> now + Ttl]}
  /\ payloadId' = NextPayloadId(payloadId, MaxSigned)
  /\ UNCHANGED <<client, on, now, registry, cosigned, asked, stage, to, net>>

\* The popup uploads the owner's data and registers it.
RegisterUserData ==
  /\ client.chain # None
  /\ LET r == PopupRegistry("registerUserData")
     IN  /\ ~HasData(r, Owner)
         /\ data' = [data EXCEPT ![r] = Registered(@, Owner, "kyc", "r1")]
  /\ payloadId' = NextPayloadId(payloadId, MaxSigned)
  /\ UNCHANGED <<client, on, now, nonces, links, given, asked, stage, to, net>>

\* The gateway signs for the data it is sent, by the chain alone: no override reaches it.
UploadIdentityEncrypted ==
  /\ MaySign
  /\ \E u \in Uploads :
       cosigned' = cosigned \cup {[owner |-> Owner, registry |-> IDENTITY_REGISTRY[client.chain],
                                  domain |-> u.domain, ref |-> u.ref, deadline |-> now + Ttl]}
  /\ UNCHANGED <<client, on, now, registry, signed, asked, stage, to, net, payloadId>>

\* The app has its user sign, for the registry it knows.
UserSigns ==
  /\ MaySign
  /\ \E r \in {resolveIdentityRegistry(client), Given(client.overrides.identityRegistry, resolveIdentityRegistry(client))} :
       signed' = signed \cup {[by |-> User, as |-> "user", registry |-> r,
                             nonce |-> nonces[r][User], deadline |-> now + Ttl]}
  /\ UNCHANGED <<client, on, now, registry, cosigned, asked, stage, to, net, payloadId>>

\* The account a write is for.
Sender(fn) ==
  CASE fn \in {"linkIdentityAsUser", "unlinkIdentityAsUser"} -> User
    [] fn = "linkIdentity" -> "relayer"
    [] OTHER -> Owner

OwnerSigns == {"linkIdentity", "linkIdentityAsUser"}
UserSignsFor == {"linkIdentity", "linkIdentityAsSigner"}

\* The app passes on the signatures it has, from the account the write is for.
Requested(fn) ==
  {[fn |-> fn, account |-> Sender(fn), owner |-> o, user |-> u, gateway |-> g] :
     o \in IF fn \in OwnerSigns THEN {s \in signed : s.by = Owner} ELSE {Nothing.owner},
     u \in IF fn \in UserSignsFor THEN {s \in signed : s.by = User} ELSE {Nothing.user},
     g \in IF fn = "registerIdentityData" THEN cosigned ELSE {Nothing.gateway}}

\* resolveIdentityRegistry, and the wallet's own account.
Start(k) ==
  /\ stage[k] = "idle"
  /\ \E fn \in RegistryWrites : \E p \in Requested(fn) : asked' = [asked EXCEPT ![k] = p]
  /\ stage' = [stage EXCEPT ![k] = IF resolveIdentityRegistry(client) = NoAddress THEN "threw" ELSE "checking"]
  /\ UNCHANGED <<client, on, now, registry, given, to, net, payloadId>>

\* viem looks which chain the wallet is on, and asks its user for a transaction on the chain it
\* was told.
Checks(k) ==
  LET e == RegistryWrite(client, on)
  IN  /\ stage[k] = "checking"
      /\ stage' = [stage EXCEPT ![k] = IF e = Throws THEN "threw" ELSE "prompt"]
      /\ to' = [to EXCEPT ![k] = e.to] /\ net' = [net EXCEPT ![k] = e.chain]
      /\ UNCHANGED <<client, on, now, registry, given, asked, payloadId>>

\* The user says yes, on whichever chain the wallet is by then: it sends the transaction on the
\* chain it is asked to, on its own if it is asked for none.
Approves(k) ==
  /\ stage[k] = "prompt" /\ stage' = [stage EXCEPT ![k] = "sent"]
  /\ net' = [net EXCEPT ![k] = IF @ = None THEN on ELSE @]
  /\ UNCHANGED <<client, on, now, registry, given, asked, to, payloadId>>

\* A refused prompt leaves the call where no call is.
Rejects_Silent(k) ==
  /\ stage[k] = "prompt" /\ stage' = [stage EXCEPT ![k] = "rejected"]
  /\ UNCHANGED <<client, on, now, registry, given, asked, to, net, payloadId>>

\* The user says no, or the wallet that it has left the chain.
Rejects(k) ==
  /\ stage[k] = "prompt" /\ stage' = [stage EXCEPT ![k] = "threw"]
  /\ UNCHANGED <<client, on, now, registry, given, asked, to, net, payloadId>>

\* The transaction is mined, after any others.
Mined(k) ==
  LET p == asked[k]
      t == Understood(p.fn, p.account, Args(p))
  IN  /\ stage[k] = "sent"
      /\ IF Accepts(to[k], p.fn, t)
         THEN stage' = [stage EXCEPT ![k] = "done"] /\ Applies(to[k], p.fn, t)
         ELSE stage' = [stage EXCEPT ![k] = "reverted"] /\ UNCHANGED registry
      /\ UNCHANGED <<client, on, now, given, asked, to, net, payloadId>>

\* The owner revokes a link in the popup, which sends the transaction itself.
PopupUnlinks ==
  /\ \E r \in Registries : /\ links[r] # {}
                           /\ links' = [links EXCEPT ![r] = {}]
  /\ UNCHANGED <<client, on, now, nonces, data, given, asked, stage, to, net, payloadId>>

\* The user connects the wallet to another chain.
Switches ==
  /\ on' \in Nets \ {on}
  /\ UNCHANGED <<client, now, registry, given, asked, stage, to, net, payloadId>>

Tick ==
  /\ now < MaxTime /\ now' = now + 1
  /\ UNCHANGED <<client, on, registry, given, asked, stage, to, net, payloadId>>

Acts ==
  \/ \E k \in Calls : Start(k) \/ Checks(k) \/ Approves(k) \/ Rejects(k) \/ Mined(k)
  \/ LinkApp \/ RegisterUserData \/ PopupUnlinks \/ UserSigns \/ UploadIdentityEncrypted

\* What changes around the client.
Around == Switches \/ Tick

-----------------------------------------------------------------------------
(* Correctness. *)

\* What a party's signature loses its force by: a nonce that is used up, or time.
Stale(r, s) == s.nonce # nonces[r][s.by] \/ now > s.deadline

\* The signatures a call needs besides its sender's.
Signed(p) ==
  CASE p.fn = "linkIdentity" -> {p.owner, p.user}
    [] p.fn = "linkIdentityAsUser" -> {p.owner}
    [] p.fn = "linkIdentityAsSigner" -> {p.user}
    [] OTHER -> {}

\* What can have come between a call and its transaction, by the names its caller gave: a
\* signature has lost its force, the owner has no data there, the link is there already or no more.
Overtaken(r, p) ==
  LET user == IF p.fn = "linkIdentityAsSignerAndUser" THEN Owner ELSE User
  IN  CASE Links(p.fn) -> \/ \E s \in Signed(p) : Stale(r, s)
                          \/ ~HasData(r, Owner) \/ LinkAlreadyExists(links[r], App, user, LinkDomains)
        [] p.fn = "registerIdentityData" -> now > p.gateway.deadline
        [] OTHER -> ~LinkAlreadyExists(links[r], App, User, LinkDomains)

\* An authorisation given under the override of the registry, which a write does not know.
UnderTheOverride(r, p) ==
  \E s \in Signed(p) : s.registry = client.overrides.identityRegistry /\ s.registry # r

\* What a call asks the registry to become.
Wanted(r, p) ==
  CASE p.fn = "linkIdentityAsSignerAndUser" ->
         links'[r] = links[r] \cup {Link(Owner, App, Owner, "kyc")}
    [] p.fn \in {"linkIdentity", "linkIdentityAsSigner", "linkIdentityAsUser"} ->
         links'[r] = links[r] \cup {Link(Owner, App, User, "kyc")}
    [] p.fn = "registerIdentityData" ->
         {d \in data'[r] : d.identityOwner = Owner /\ d.identityDomain = p.gateway.domain}
           = {Bound(Owner, p.gateway.domain, p.gateway.ref)}
    [] OTHER -> links'[r] = links[r] \ {Link(Owner, App, User, "kyc")}

\* A transaction does to the registry what its caller asked for by name, or it reverts because
\* something came between: a signature was used, or ran out, the link was made or removed by
\* another.  It never reverts because the arguments say another thing than the parameters did,
\* nor because an authorisation is for another registry than the transaction goes to, unless it
\* was given under the override of a client that has one (LinkAppIsRedeemed).
LinksAsAsked ==
  [][\A k \in Calls :
       /\ stage[k] = "sent" /\ stage'[k] = "reverted"
            => Overtaken(to[k], asked[k]) \/ UnderTheOverride(to[k], asked[k])
       /\ stage[k] = "sent" /\ stage'[k] = "done" => Wanted(to[k], asked[k])]_vars

\* What a client's methods reach while its wallet is on a chain.
Effects(chain) ==
  {WalletEffect(client, m, chain) : m \in WalletMethods} \cup
    IF PublicActionsOf(client) THEN {PublicEffect(client, m) : m \in PublicMethods} ELSE {}

\* The chain an effect is for, Sepolia if it names none.
ChainOf(e) == IF e.chain = None THEN "sepolia" ELSE e.chain

\* Every contract whose address the SDK looks up itself is asked on the network it is deployed on,
\* and a registry's transaction goes out on that registry's, whichever chain the wallet has been on
\* at the call, at viem's check and under the prompt.
SentWhereDeployed ==
  /\ \A chain \in Nets : \A e \in Effects(chain) : e.to.contract \in AddressKeys => e.to.on = ChainOf(e)
  /\ [][\A k \in Calls : stage[k] = "prompt" /\ stage'[k] = "sent" => net'[k] = to[k].on]_vars

-----------------------------------------------------------------------------
(* What the documentation says, and the code does not do. *)

\* types/identity.ts:20 of linkApp's answer: "Pass it to linkIdentityAsUser"; and the
\* identityRegistry of the overrides is the "Custom IdentityRegistry contract address"
\* (sdk-reference.mdx:193).  So what linkApp has signed is redeemed, unless something came between.
LinkAppIsRedeemed ==
  [][\A k \in Calls :
       asked[k].fn = "linkIdentityAsUser" /\ stage[k] = "sent" /\ stage'[k] = "reverted"
         => Overtaken(to[k], asked[k])]_vars

-----------------------------------------------------------------------------
(* The inductive invariant: what the registries' answers come from. *)

\* A signature is of one of the parties, in its own role, for a registry the client knows; the
\* gateway's is the owner's, for that of the chain.
SignaturesAreOwn ==
  /\ IsFiniteSet(signed) /\ IsFiniteSet(cosigned)
  /\ \A s \in signed :
       /\ s.as = IF s.by = Owner THEN "signer" ELSE "user"
       /\ s.registry \in {resolveIdentityRegistry(client), client.overrides.identityRegistry}
  /\ \A s \in cosigned : s.owner = Owner /\ s.registry = resolveIdentityRegistry(client)

\* What a call has asked for: signatures that were given, from the account it is for.
Asks(p) ==
  /\ p.account = Sender(p.fn)
  /\ p.fn \in OwnerSigns => p.owner \in signed
  /\ p.fn \in UserSignsFor => p.user \in signed
  /\ p.fn = "registerIdentityData" => p.gateway \in cosigned

\* A call has the signatures of who it says, and goes to the registry of the client's chain.
CallsAreMeant ==
  \A k \in Calls :
    /\ asked[k].owner.by = Owner /\ asked[k].owner.as = "signer"
    /\ asked[k].user.by = User /\ asked[k].user.as = "user"
    /\ stage[k] # "idle" => Asks(asked[k])
    /\ stage[k] \in {"prompt", "sent", "done", "reverted"} =>
         /\ client.chain # None /\ net[k] = client.chain
         /\ to[k] = resolveIdentityRegistry(client)

\* A nonce counts transactions, and links are the owner's.
RegistriesAreTrue ==
  \A r \in Registries :
    /\ \A a \in Accounts : nonces[r][a] <= Cardinality({k \in Calls : stage[k] = "done"})
    /\ links[r] \subseteq {Link(Owner, App, a, "kyc") : a \in {Owner, User}}

LinksHold ==
  WalletActionsOf(client) /\ SignaturesAreOwn /\ CallsAreMeant /\ RegistriesAreTrue
=============================================================================
