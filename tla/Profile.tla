--------------------------------- MODULE Profile ---------------------------------
(***************************************************************************)
(* A profile taken to another computer: what is written of a setup, what   *)
(* is planned from the file against the setup found there, and the plan    *)
(* carried out one call at a time, any of which may fail with the rest     *)
(* undone.  Networks are known to it by name, compared caselessly.         *)
(***************************************************************************)
EXTENDS Naturals, Sequences, FiniteSets

CONSTANTS
    Setups,     \* what may be configured before: id -> network
    Files,      \* what may be read
    Usable,     \* of those, the ones that are profiles of this version
    MaxImports,
    None

\* The networks set up here and those read of files, and what either may be.
Known == UNION {{setup[id] : id \in DOMAIN setup} : setup \in Setups}
Listed == UNION {{file.networks[i] : i \in DOMAIN file.networks} : file \in Usable}
Portable ==
    [name : {network.name : network \in Listed}, at : {network.at : network \in Listed},
     sasl : {network.sasl : network \in Listed}, auto : BOOLEAN]
Network ==
    [name : {network.name : network \in Known \cup Listed},
     at : {network.at : network \in Known \cup Listed},
     sasl : {network.sasl : network \in Known} \cup {None},
     certificate : BOOLEAN, commands : BOOLEAN, auto : BOOLEAN]
Provider(p) == /\ p = [at |-> p.at, query |-> p.query, credential |-> p.credential]
               /\ {p.query, p.credential} \subseteq BOOLEAN
ProfileAssumption ==
    /\ Usable \subseteq Files /\ MaxImports \in Nat /\ None \notin Network \cup Nat
    /\ \A setup \in Setups : setup \in Seq(Network)
    /\ \A file \in Usable : file.networks \in Seq(Portable)
    /\ \A file \in Usable : file.upload # None => Provider(file.upload)

VARIABLES
    networks,   \* id -> what is configured, and the next id to be given
    fresh,
    secrets,    \* the networks with a password in the keyring
    words,      \* what raises a line: [backend, client]
    muted, upload, appearance,
    plan,       \* what the page is asking about
    step, ids,  \* the call of it that is next, and the ids of its networks
    busy, imports,
    own,        \* the plan is of a profile written here
    again       \* a plan that adds networks was carried out a second time

backend == <<networks, fresh, secrets, muted, upload>>
vars == <<backend, words, appearance, plan, step, ids, busy, imports, again, own>>

With(f, x, value) == [y \in DOMAIN f \cup {x} |-> IF y = x THEN value ELSE f[y]]
Named(n) == {id \in DOMAIN networks : networks[id].name = n}

\* What a file holds of a network: its login's account and mechanism and none of
\* what proves it, nor a certificate, nor what is sent on connecting.
portableNetwork(network) ==
    [name |-> network.name, at |-> network.at, sasl |-> network.sasl, auto |-> network.auto]
\* Of an upload provider with a credential or a form, only that there is one; of an
\* address, what comes before its query.
portableUpload(provider) ==
    IF provider = None THEN None
    ELSE [at |-> provider.at, query |-> FALSE, credential |-> provider.credential]
buildPortableProfile(file) ==
    /\ {file.networks[i] : i \in DOMAIN file.networks} =
         {portableNetwork(networks[id]) : id \in DOMAIN networks}
    /\ file.words = words.backend /\ file.upload = portableUpload(upload)
    /\ file.appearance = appearance
    /\ file.mutes = {<<networks[m[1]].name, m[2]>> : m \in muted}

-----------------------------------------------------------------------------
\* A login is ready where this computer has the same one, and its certificate if
\* it is proved by one.
authentication(network, held) ==
    IF \/ network.sasl = None
       \/ /\ held # None /\ held.sasl = network.sasl
          /\ network.sasl.mechanism = "EXTERNAL" => held.certificate
    THEN "ready" ELSE "manual"
plannedNetwork(network) ==
    LET held == IF Named(network.name) = {} THEN None
                ELSE networks[CHOOSE id \in Named(network.name) : TRUE]
        ready == authentication(network, held)
    IN  [id |-> IF held = None THEN None ELSE CHOOSE id \in Named(network.name) : TRUE,
         ready |-> ready,
         config |-> [name |-> network.name, at |-> network.at,
                     sasl |-> IF held = None THEN None ELSE held.sasl,
                     certificate |-> held # None /\ held.certificate,
                     commands |-> held # None /\ held.commands,
                     auto |-> (ready = "ready" \/ held # None) /\ network.auto]]
\* A name held twice, on either side, is one nothing can be matched to.
Matched(file) ==
    /\ \A i, j \in DOMAIN file.networks :
         file.networks[i].name = file.networks[j].name => i = j
    /\ \A i \in DOMAIN file.networks : Cardinality(Named(file.networks[i].name)) <= 1
plannedUpload(provider) == provider # None /\ ~provider.credential
\* A mute whose network is not in the file is skipped.
Mutes(file) ==
    {m \in file.mutes : \E i \in DOMAIN file.networks : file.networks[i].name = m[1]}

chooseProfile(file) ==
    /\ ~busy /\ plan = None /\ file \in Usable /\ Matched(file)
    /\ plan' = [networks |-> [i \in DOMAIN file.networks |-> plannedNetwork(file.networks[i])],
                file |-> file]
    /\ own' = buildPortableProfile(file)
    /\ UNCHANGED <<backend, words, appearance, step, ids, busy, imports, again>>
cancel ==
    /\ ~busy /\ plan # None /\ plan' = None
    /\ UNCHANGED <<backend, words, appearance, step, ids, busy, imports, again, own>>

importProfile ==
    /\ ~busy /\ plan # None /\ imports < MaxImports /\ imports' = imports + 1
    /\ busy' = TRUE /\ step' = 1 /\ ids' = <<>>
    /\ again' = (again \/ \E i \in DOMAIN plan.networks :
                   plan.networks[i].id = None /\ Named(plan.networks[i].config.name) # {})
    /\ UNCHANGED <<backend, words, appearance, plan, own>>

\* A network planned to be added is given an id of its own; one without a login
\* has nothing left in the keyring.
saveNetwork ==
    /\ busy /\ step \in DOMAIN plan.networks
    /\ LET planned == plan.networks[step]
           id == IF planned.id = None THEN fresh ELSE planned.id
       IN  /\ networks' = With(networks, id, planned.config)
           /\ fresh' = IF planned.id = None THEN fresh + 1 ELSE fresh
           /\ secrets' = IF planned.config.sasl = None THEN secrets \ {id} ELSE secrets
           /\ ids' = With(ids, planned.config.name, id)
    /\ step' = step + 1
    /\ UNCHANGED <<words, muted, upload, appearance, plan, busy, imports, again, own>>
setHighlightWords ==
    /\ busy /\ step = Len(plan.networks) + 1 /\ step' = step + 1
    /\ words' = [backend |-> plan.file.words, client |-> plan.file.words]
    /\ UNCHANGED <<backend, appearance, plan, ids, busy, imports, again, own>>
setMuted ==
    LET named == {<<ids[m[1]], m[2]>> : m \in Mutes(plan.file)}
    IN  /\ busy /\ step = Len(plan.networks) + 2
        /\ IF named \subseteq muted THEN step' = step + 1 /\ UNCHANGED muted
           ELSE UNCHANGED step /\ \E m \in named \ muted : muted' = muted \cup {m}
        /\ UNCHANGED <<networks, fresh, secrets, upload, words, appearance, plan, ids, busy, imports,
                       again, own>>
saveUploadProvider ==
    /\ busy /\ step = Len(plan.networks) + 3 /\ step' = step + 1
    /\ upload' = IF plannedUpload(plan.file.upload) THEN plan.file.upload ELSE upload
    /\ UNCHANGED <<networks, fresh, secrets, muted, words, appearance, plan, ids, busy, imports, again, own>>
\* The look and the desktop's notifications are this window's own, and cannot fail.
Concluded ==
    /\ busy /\ step = Len(plan.networks) + 4
    /\ appearance' = plan.file.appearance /\ plan' = None /\ busy' = FALSE /\ step' = 0
    /\ UNCHANGED <<backend, words, ids, imports, again, own>>
Fallible(at) ==
    \/ at <= 1
    \/ at = 2 /\ ~({<<ids[m[1]], m[2]>> : m \in Mutes(plan.file)} \subseteq muted)
    \/ at = 3 /\ plannedUpload(plan.file.upload)
\* A call that fails leaves what was done, and the plan up to be tried again.
Stopped ==
    /\ busy /\ Fallible(step - Len(plan.networks)) /\ busy' = FALSE /\ step' = 0
    /\ UNCHANGED <<backend, words, appearance, plan, ids, imports, again, own>>

Init ==
    /\ networks \in Setups /\ fresh = Cardinality(DOMAIN networks) + 1
    /\ secrets = {id \in DOMAIN networks : networks[id].sasl # None}
    /\ words = [backend |-> "ours", client |-> "ours"]
    /\ muted \in SUBSET ((DOMAIN networks) \X {"c"})
    /\ upload \in {None, [at |-> "ours", query |-> TRUE, credential |-> FALSE]}
    /\ appearance = "ours"
    /\ plan = None /\ step = 0 /\ ids = <<>> /\ busy = FALSE /\ imports = 0
    /\ again = FALSE /\ own = FALSE
Next ==
    \/ \E file \in Files : chooseProfile(file)
    \/ cancel \/ importProfile \/ saveNetwork \/ setHighlightWords \/ setMuted
    \/ saveUploadProvider \/ Concluded \/ Stopped
Spec == Init /\ [][Next]_vars

-----------------------------------------------------------------------------
TypeOK ==
    /\ DOMAIN networks \subseteq 1..(fresh - 1) /\ secrets \subseteq DOMAIN networks
    /\ \A m \in muted : m[1] \in DOMAIN networks

\* Whatever is imported, and wherever it stops: no network is lost or takes another's
\* name, each keeps the login, the certificate and the commands this computer gave it
\* and with them its password; a network is added only under a name nobody has, unless
\* an import that added it stopped and was tried again, and claims no login that
\* nothing here proves.
OursStay ==
    [][/\ \A id \in DOMAIN networks :
            /\ id \in DOMAIN networks' /\ networks'[id].name = networks[id].name
            /\ networks'[id].sasl = networks[id].sasl
            /\ networks'[id].certificate = networks[id].certificate
            /\ networks'[id].commands = networks[id].commands
            /\ id \in secrets => id \in secrets'
       /\ fresh' # fresh => /\ networks'[fresh].sasl = None
                            /\ Named(networks'[fresh].name) = {} \/ again]_vars

\* A profile read back where it was written changes nothing, but the address of an
\* upload host, which it holds without its query; and what raises a line is always
\* what the backend keeps, where an import stopped half way too.
OwnChangesNothing ==
    [][/\ words'.client = words'.backend
       /\ own => /\ networks' = networks /\ words' = words /\ muted' = muted
                 /\ appearance' = appearance
                 /\ upload' # upload => upload.query /\ upload' = [upload EXCEPT !.query = FALSE]]_vars
=============================================================================
