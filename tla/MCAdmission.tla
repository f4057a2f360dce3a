----------------------------- MODULE MCAdmission -----------------------------
(* A small instance of Admission.                                           *)
EXTENDS Admission

MCGrant == {"g1", "g2"}
MCIssuedAt == [g1 |-> 0, g2 |-> 1]
MCExpiresAt == [g1 |-> 2, g2 |-> 3]

MCPair == {"long", "wide", "short", "other"}
MCNames == [long |-> {"svc"}, wide |-> {"svc", "alt"}, short |-> {"svc"}, other |-> {"svc"}]
MCIssuer == [long |-> "ca", wide |-> "ca", short |-> "ca", other |-> "ca2"]
MCNotAfter == [long |-> 90, wide |-> 90, short |-> 2, other |-> 90]

MCProgramNames == {"p1", "p2"}
MCWaiverNames == {"w", "empty"}
MCBodyNames == {"privileged pod", "plain pod", "binding", "garbage"}

AnyLabels == [match_labels |-> NoLabels, match_expressions |-> <<>>]
TeamA == [match_labels |-> [team |-> "a"],
          match_expressions |-> <<[key |-> "team", operator |-> "In", values |-> {"a"}]>>]
Selects(ns) == [cluster |-> AnyLabels, namespace |-> ns, workload |-> AnyLabels,
                service_account |-> AnyLabels]

BaseProgram ==
  [mode |-> "Enforce", disabled |-> FALSE, pss |-> "Custom", deny |-> {"privileged"},
   deny_caps |-> {}, mutate |-> {"DropAllCapabilities"}, require_digest |-> FALSE, registries_allow |-> {},
   supply |-> [signed |-> FALSE, deny_latest |-> FALSE, roots |-> {}],
   selector |-> Selects(TeamA)]
MCProgramText ==
  [p1 |-> BaseProgram,
   p2 |-> [BaseProgram EXCEPT !.deny = {"hostPID", "clusterAdminBind"}, !.pss = "Baseline",
                              !.selector = Selects(AnyLabels)]]

MCWaiverText ==
  [empty |-> {},
   w |-> {[ticket |-> "T", reason |-> 8, approved_by |-> "b", requested_by |-> "a",
           expires_at |-> 2, namespace |-> "", policies |-> {"prod"}, rules |-> {"privileged"}]}]

SC(privileged) == [privileged |-> privileged, allowPrivilegeEscalation |-> "false",
                   runAsNonRoot |-> "true", runAsUser |-> "unset", add |-> {}]
PodOf(privileged, host) ==
  [kind |-> "Pod", namespace |-> "", labels |-> NoLabels, spec |-> "object", host |-> host,
   volumes |-> <<"plain">>, sc |-> SC("unset"), service_account |-> "",
   containers |-> <<[image |-> NoImage, sc |-> SC(privileged)]>>,
   signatures |-> [i \in {} |-> ""], signature |-> {},
   doc |-> {<<"container", 1>>, <<"container", 1, "sc">>, <<"pod">>}]
Binding == [kind |-> "ClusterRoleBinding", namespace |-> "", labels |-> NoLabels,
            role_ref |-> "cluster-admin"]
BodyOf(object, breaks) ==
  [shape |-> "ok", namespace |-> "ns", object |-> object, breaks |-> breaks]
MCBodyText ==
  [b \in MCBodyNames |->
     CASE b = "privileged pod" -> BodyOf({PodOf("true", {"hostPID"})},
                                         [p1 |-> {"privileged"}, p2 |-> {"privileged", "hostPID"}])
       [] b = "plain pod"      -> BodyOf({PodOf("false", {})}, [p1 |-> {}, p2 |-> {}])
       [] b = "binding"        -> BodyOf({Binding}, [p1 |-> {}, p2 |-> {"clusterAdminBind"}])
       [] OTHER -> [BodyOf({}, [p1 |-> {"any"}, p2 |-> {"any"}]) EXCEPT !.shape = "not JSON"]]

MCConfigurations == {{"requests", "bundle", "exceptions"}, {"requests", "break-glass"}, {"tls"}}

MCLabels == [namespace |-> [n \in {"", "ns"} |-> {[team |-> "a"]}],
             service_account |-> [s \in {"", "ns"} \X {"default"} |-> {NoLabels}]]
=============================================================================
