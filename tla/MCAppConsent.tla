----------------------------- MODULE MCAppConsent -----------------------------
(***************************************************************************)
(* Instances of AppConsent for TLC, and what the manual says about         *)
(* configuration that TLC refutes.                                         *)
(***************************************************************************)
EXTENDS AppConsent, TLC

CONSTANTS id1, id2, net, data, Data, logs, key1, key2, v0, v1

P(k, r) == [kind |-> k, required |-> r]
E(k, d, r) == [key |-> k, default |-> d, required |-> r]

Manifest(id, project, permissions, storage, config, safe) ==
    [id |-> id, project |-> project, permissions |-> permissions, storage |-> storage,
     config |-> config, ports |-> <<>>, rollbackSafe |-> safe, migrationRisk |-> FALSE]

\* Permissions that may be optional, required, both in either order, or not there;
\* two names of one volume, and another volume.
PermissionLists ==
    {<<>>, <<P(net, FALSE)>>, <<P(net, TRUE)>>,
     <<P(net, TRUE), P(net, FALSE)>>, <<P(net, FALSE), P(net, TRUE)>>}
StorageLists == {<<>>, <<Data>>, <<data, logs>>}

\* One app in many versions, and another one that wants the same project.
MCOffered ==
    {Manifest(id1, None, p, s, <<>>, TRUE) : p \in PermissionLists, s \in StorageLists}
        \cup {Manifest(id1, id2, <<>>, <<logs>>, <<>>, FALSE),
              Manifest(id2, None, <<>>, <<Data>>, <<>>, TRUE),
              Manifest(id1, None, <<>>, <<data, data>>, <<>>, TRUE)}

\* Clients may send keys that no manifest declares.
MCOverrides == {<<>>, key1 :> v1}

\* Versions that differ in their configuration.
ConfigLists == {<<E(key1, v0, TRUE)>>, <<E(key1, v1, FALSE)>>,
                <<E(key1, v1, TRUE), E(key2, v1, FALSE)>>}
ConfigOffered ==
    {Manifest(id1, None, <<>>, s, c, TRUE) : s \in StorageLists, c \in ConfigLists}
ConfigOverrides == {<<>>, key1 :> v0, key1 :> v1}

MCLower == [n \in Names |-> IF n = Data THEN data ELSE n]

\* The ids are like a and a-b, the names like data and b-data: what follows the
\* dash of one id is the other id and a name.
MCJoined(id, name) == IF <<id, name>> = <<id2, data>> THEN <<id1, logs>> ELSE <<id, name>>

\* manifest-authoring.md: "declared config is injected into every inline service".
\* It is not even if every revision is created later than those before.
DeclaredConfigInjected ==
    \A a \in Installed : inOrder[a] => Keys(app[a].manifest) \subseteq DOMAIN app[a].config
=============================================================================
