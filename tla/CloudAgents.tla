----------------------------- MODULE CloudAgents ----------------------------
(***************************************************************************)
(* The nodes menu: the registry of agents (src/src/web/gui/src/            *)
(* dashboard.js/registry.js) and its synchronisation with the account of a *)
(* signed-in user (src/src/web/gui/main.js).                               *)
(*                                                                         *)
(* registry.init() says hello to the agent, then asks the registry for the *)
(* agents of this person, following redirects.  What it learns is handed   *)
(* to netdataRegistryCallback(), which for a signed-in user reads the      *)
(* agents of the account, merges the agents the registry knows into them   *)
(* and writes the result back.  Every request is a callback: the user      *)
(* signs in and out, and other calls start, while it is under way.         *)
(*                                                                         *)
(* An agent is the set of its addresses, pairs <<guid, url>>.  The         *)
(* registry, the account service and their failures are external.          *)
(***************************************************************************)
EXTENDS Integers, FiniteSets

CONSTANTS
    Account, NoAccount,  \* the accounts the user has; cloudAccountID = null
    Current,             \* the address of this agent (machine_guid, serverDefault)
    Known,               \* the addresses the registry knows for this person
    Masked,              \* MASKED_DATA, the url of an agent that keeps it private
    Stored,              \* the addresses the account service may hold at first
    MaxInits,            \* bound: calls of registry.init()
    MaxSignIns           \* bound: sign-in and sign-out messages

ASSUME AccountAssumption == NoAccount \notin Account

VARIABLES
    calls,          \* the registry requests under way: call number -> [at, left]
    isCloudEnabled, \* what the agent's hello said, FALSE before it
    machines,       \* machines_array, or the model value NoAccount for null
    registryAgents, \* the same, as the cloud code was last told
    cloudAgents,    \* the account's agents, as last read or written
    account,        \* cloudAccountID
    sync,           \* localStorage "cloud.sync": the accounts with a sync time
    fetches,        \* the account requests under way: number -> [at, of, agents]
    nodesMenu,      \* what the menu shows: [kind, agents]
    cloud,          \* external: account -> the addresses the service holds
    muddled,        \* history: requests overlapped, or one failed to be written
    signIns         \* bound counter

registryVars == <<calls, isCloudEnabled, machines>>
accountVars == <<registryAgents, cloudAgents, account, sync, fetches, nodesMenu>>
agentVars == <<registryVars, accountVars, cloud, muddled, signIns>>

NoList == NoAccount
Fetch == 1..(MaxInits + MaxSignIns)
NoFetch == [at |-> "none", of |-> NoAccount, agents |-> {}]
SomeBusy == \E f \in Fetch : fetches[f] # NoFetch

AgentsInit ==
    /\ calls = [n \in 1..MaxInits |-> [at |-> "none", left |-> 0]]
    /\ isCloudEnabled = FALSE
    /\ machines = NoList /\ registryAgents = {} /\ cloudAgents = {}
    /\ account = NoAccount /\ sync = {} /\ signIns = 0
    /\ fetches = [f \in Fetch |-> NoFetch]
    /\ nodesMenu = [kind |-> "loading", agents |-> {}]
    /\ cloud \in [Account -> SUBSET Stored]
    /\ muddled = FALSE

Guids(s) == {p[1] : p \in s}

\* Mutant: the agents of the account are left out.
LocalOnly(theirs, ours) == ours

\* mergeAgents(): addresses of agents the account has are added unless masked,
\* agents it does not have are added as they are.
MergeAgents(theirs, ours) ==
    theirs \cup {p \in ours : p[2] # Masked \/ p[1] \notin Guids(theirs)}

\* postCloudAccountAgents(): masked addresses are not sent.
Posted(agents) == {p \in agents : p[2] # Masked}

\* netdataRegistryCallback(): with the cloud disabled (initCloud) the user is
\* signed out; a signed-in user's agents are asked for, others see the registry's.
RegistryCallback(agents, who) ==
    LET signed == IF isCloudEnabled' THEN who ELSE NoAccount
    IN  /\ registryAgents' = agents
        /\ account' = signed
        /\ IF signed # NoAccount
           THEN /\ \E f \in Fetch :
                      /\ fetches[f] = NoFetch /\ \A g \in Fetch : g < f => fetches[g] # NoFetch
                      /\ fetches' = [fetches EXCEPT ![f] = [at |-> "get", of |-> signed, agents |-> {}]]
                /\ nodesMenu' = [kind |-> "loading", agents |-> {}]
           ELSE /\ nodesMenu' = [kind |-> "registry", agents |-> agents]
                /\ UNCHANGED fetches
        /\ sync' = IF isCloudEnabled' THEN sync ELSE {}
        /\ muddled' = (muddled \/ SomeBusy)
        /\ UNCHANGED cloudAgents

-----------------------------------------------------------------------------
(* The registry. *)

\* init(): hello to the agent; explicitlySyncAgents() makes the next
\* synchronisation of the account its first one before it.
RegistryInit(n) ==
    /\ calls[n].at = "none" /\ \A m \in 1..MaxInits : m < n => calls[m].at # "none"
    /\ calls' = [calls EXCEPT ![n] = [at |-> "hello", left |-> 0]]
    /\ sync' \in {sync, sync \ {account}}
    /\ UNCHANGED <<isCloudEnabled, machines, registryAgents, cloudAgents, account, fetches,
                   nodesMenu, cloud, muddled, signIns>>

\* The hello is answered, and the registry accessed with two redirects at most,
\* or it fails and nothing more happens.
Hello(n) ==
    /\ calls[n].at = "hello"
    /\ \/ /\ isCloudEnabled' \in BOOLEAN
          /\ calls' = [calls EXCEPT ![n] = [at |-> "access", left |-> 2]]
       \/ /\ calls' = [calls EXCEPT ![n].at = "done"]
          /\ UNCHANGED isCloudEnabled
    /\ UNCHANGED <<machines, accountVars, cloud, muddled, signIns>>

\* The registry sends us to another one.
Redirect(n) ==
    /\ calls[n].at = "access" /\ calls[n].left > 0
    /\ calls' = [calls EXCEPT ![n].left = @ - 1]
    /\ UNCHANGED <<isCloudEnabled, machines, accountVars, cloud, muddled, signIns>>

\* access() ends and parsePersonUrls() rebuilds the machines, or keeps those it
\* had when the registry failed.
Access(n) ==
    /\ calls[n].at = "access"
    /\ machines' \in {Posted(Known), machines}
    /\ calls' = [calls EXCEPT ![n].at = "done"]
    /\ UNCHANGED isCloudEnabled
    /\ RegistryCallback(machines', account)
    /\ UNCHANGED <<cloud, signIns>>

-----------------------------------------------------------------------------
(* The account. *)

\* handleSignInMessage(), handleSignOutMessage()
SignIn(a) ==
    /\ signIns < MaxSignIns /\ signIns' = signIns + 1
    /\ UNCHANGED <<registryVars, cloud>>
    /\ RegistryCallback(registryAgents, a)
SignOut ==
    /\ signIns < MaxSignIns /\ signIns' = signIns + 1
    /\ account' = NoAccount
    /\ nodesMenu' = [kind |-> "registry", agents |-> registryAgents]
    /\ muddled' = (muddled \/ SomeBusy)
    /\ UNCHANGED <<registryVars, registryAgents, cloudAgents, sync, fetches, cloud>>

\* The service answers a read; later the page gets the answer, or an error.
Read(f) ==
    /\ fetches[f].at = "get"
    /\ fetches' = [fetches EXCEPT ![f].at = "got", ![f].agents = cloud[fetches[f].of]]
    /\ UNCHANGED <<registryVars, registryAgents, cloudAgents, account, sync, nodesMenu,
                   cloud, muddled, signIns>>
ReadFails(f) ==
    /\ fetches[f].at \in {"get", "got"}
    /\ fetches' = [fetches EXCEPT ![f] = NoFetch]
    /\ nodesMenu' = [kind |-> "error", agents |-> {}]
    /\ UNCHANGED <<registryVars, registryAgents, cloudAgents, account, sync,
                   cloud, muddled, signIns>>

\* The callback of syncAgents(): the agents become the machines of the page.
ShowAgents(agents) ==
    /\ machines' = agents /\ cloudAgents' = agents
    /\ nodesMenu' = [kind |-> "cloud", agents |-> agents]

\* The agents to merge into the account: the first time all the registry knows,
\* and always the one the user looks at.
LocalAgents(first) == (IF first THEN registryAgents ELSE {}) \cup {Current}

\* syncAgents(): the first time for an account the registry's agents are merged
\* in, later only this one.  A list the registry never gave (null), or a user
\* who signed out with something to write, is an exception: the menu stays.
SyncAgents(f) ==
    LET first  == account \notin sync
        merged == MergeAgents(fetches[f].agents, LocalAgents(first))
    IN  /\ fetches[f].at = "got"
        /\ IF first /\ registryAgents = NoList
           THEN /\ fetches' = [fetches EXCEPT ![f] = NoFetch]
                /\ cloudAgents' = fetches[f].agents
                /\ UNCHANGED <<machines, nodesMenu, sync>>
           ELSE /\ sync' = IF first \/ merged # fetches[f].agents
                           THEN sync \cup {account} ELSE sync
                /\ IF merged = fetches[f].agents
                   THEN /\ ShowAgents(merged)
                        /\ fetches' = [fetches EXCEPT ![f] = NoFetch]
                   ELSE /\ fetches' = [fetches EXCEPT ![f] =
                                IF account = NoAccount THEN NoFetch
                                ELSE [at |-> "post", of |-> account, agents |-> Posted(merged)]]
                        /\ cloudAgents' = fetches[f].agents
                        /\ UNCHANGED <<machines, nodesMenu>>
        /\ UNCHANGED <<calls, isCloudEnabled, registryAgents, account, cloud, muddled, signIns>>

\* The service replaces the account's agents ("merge": false).
Write(f) ==
    /\ fetches[f].at = "post"
    /\ cloud' = [cloud EXCEPT ![fetches[f].of] = fetches[f].agents]
    /\ fetches' = [fetches EXCEPT ![f].at = "posted"]
    /\ UNCHANGED <<registryVars, registryAgents, cloudAgents, account, sync, nodesMenu, muddled, signIns>>

\* The page gets the answer: the agents written, or an error, which is shown as
\* an account without agents, or not at all.
PostDone(f) ==
    /\ fetches[f].at = "posted"
    /\ fetches' = [fetches EXCEPT ![f] = NoFetch]
    /\ ShowAgents(fetches[f].agents)
    /\ UNCHANGED <<calls, isCloudEnabled, registryAgents, account, sync, cloud, muddled, signIns>>
PostFails(f) ==
    /\ fetches[f].at \in {"post", "posted"}
    /\ fetches' = [fetches EXCEPT ![f] = NoFetch]
    /\ muddled' = TRUE
    /\ \/ ShowAgents({})
       \/ UNCHANGED <<machines, cloudAgents, nodesMenu>>
    /\ UNCHANGED <<calls, isCloudEnabled, registryAgents, account, sync, cloud, signIns>>

RegistryAnswers(n) == Hello(n) \/ Redirect(n) \/ Access(n)
AccountAnswers(f) == Read(f) \/ ReadFails(f) \/ SyncAgents(f) \/ Write(f) \/ PostDone(f) \/ PostFails(f)
AgentsNext ==
    \/ \E n \in 1..MaxInits : RegistryInit(n) \/ RegistryAnswers(n)
    \/ \E f \in Fetch : AccountAnswers(f)
    \/ \E a \in Account : SignIn(a)
    \/ SignOut
AgentsSpec == AgentsInit /\ [][AgentsNext]_agentVars

\* What synchronising promises: when nothing is under way the menu of a
\* signed-in user shows the agents the account holds, and the agent the user
\* looks at is one of them.  Not promised when two reads overlap, the user signs
\* in or out during one, or a write fails: the answer is then merged into
\* whatever account is signed in, and a write is never tried again.
MenuIsAccount ==
    ~SomeBusy /\ ~muddled /\ account # NoAccount /\ nodesMenu.kind = "cloud" =>
        /\ nodesMenu.agents = cloud[account]
        /\ Current \in cloud[account]

\* syncAgents(): every step keeps the menu so and, although a write replaces the
\* whole account ("merge": false), no address the account holds is lost to it,
\* again unless requests overlap.
AccountKept ==
    [][/\ MenuIsAccount'
       /\ muddled' \/ \A a \in Account : Posted(cloud[a]) \subseteq cloud'[a]]_agentVars
=============================================================================
