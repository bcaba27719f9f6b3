---------------------------- MODULE MCDiscovery ----------------------------
(* A cluster with Crossplane and a provider package nobody knows, two        *)
(* charts, one of them perhaps a project of the landscape, and argocd: two   *)
(* release candidates of 2.1.0 in daemons, 2.0.0 in a deployment, and a chart *)
(* of 3.0.0. The components directory replaces the definition of argocd, and *)
(* a later name claims its image as well. A function, or a daemon that gives *)
(* 2.0.0 the majority, may be installed.                                     *)
EXTENDS Discovery, TLC

V(major, minor, suffix) ==
  [parts |-> 3, major |-> major, minor |-> minor, patch |-> 0, suffix |-> suffix]

MCSuffixes == {"", "rc.1", "rc.2"}
MCPrereleases == {"rc.1", "rc.2"}

O(list, ref, version) ==
  [list |-> list, ref |-> ref, version |-> version, ignored |-> FALSE, readable |-> TRUE]

Objects ==
  ("server"     :> O("server", "cluster", V(1, 35, ""))) @@
  ("group"      :> O("groups", "pkg.crossplane.io", Empty)) @@
  ("deployed"   :> O("deployments", "argocd", V(2, 0, ""))) @@
  ("sandbox"    :> [O("deployments", "argocd", V(9, 0, "")) EXCEPT !.ignored = TRUE]) @@
  ("candidate1" :> O("daemonsets", "argocd", V(2, 1, "rc.1"))) @@
  ("candidate2" :> O("daemonsets", "argocd", V(2, 1, "rc.2"))) @@
  ("daemon"     :> O("daemonsets", "argocd", V(2, 0, ""))) @@
  ("chart"      :> O("secrets", "argo-cd", V(3, 0, ""))) @@
  ("damaged"    :> [O("providers", "provider-aws", V(4, 0, "")) EXCEPT !.readable = FALSE]) @@
  ("project"    :> O("secrets", "falco", V(0, 3, ""))) @@
  ("provider"   :> O("providers", "provider-aws", V(1, 0, ""))) @@
  ("function"   :> O("functions", "function-go", V(0, 1, "")))

MCIs == Objects

MCStart ==
  {"server", "group", "deployed", "sandbox", "candidate1", "candidate2", "chart", "damaged", "project", "provider"}
MCObject == MCStart \cup {"function", "daemon"}

MCRef == {"cluster", "pkg.crossplane.io", "argocd", "argo-cd", "falco", "provider-aws", "function-go"}
MCName == {"kubernetes", "crossplane", "argocd", "gitops", "falco-runtime", "falco", "provider-aws", "function-go"}
MCLayers ==
  << ("kubernetes" :> {"cluster"}) @@ ("crossplane" :> {"pkg.crossplane.io"}) @@ ("argocd" :> {}),
     "argocd" :> {"argocd", "argo-cd"},
     "gitops" :> {"argocd"} >>
MCBefore == [n \in MCName |-> IF n = "gitops" THEN {"argocd"} ELSE {}]
MCOwnName == [r \in MCRef |-> IF r \in MCName THEN r ELSE "falco"]
MCLandscapes == {<<>>, "falco" :> "falco-runtime"}
=============================================================================
