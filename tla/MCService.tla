----------------------------- MODULE MCService ------------------------------
(* Small instances of Service: one principal who may do everything in the    *)
(* first workspace, one with a role that reads, and strangers.               *)
EXTENDS Service, TLC

CONSTANTS alice, bob, carol, a, b, e, h1

Permission(action, kind, model) ==
  [action |-> action, resource |-> [kind |-> kind, model |-> model]]

MCConfig ==
  [version |-> "v1",
   roles |-> <<[name |-> "reader",
                permissions |-> {Permission("NodeRead", "NodeModel", a),
                                 Permission("EdgeRead", "AnyEdgeModel", NoName),
                                 Permission("Traverse", "OperationFamily", NoName)}]>>,
   assignments |->
     << [principal |-> alice, scope |-> [kind |-> "Workspace", workspace |-> 1],
         roles |-> {"reader"},
         permissions |-> {Permission("WorkspaceOpen", "Workspace", NoName),
                          Permission("WorkspaceClose", "Workspace", NoName),
                          Permission("NodeRead", "NodeModel", b),
                          Permission("NodeCreate", "AnyNodeModel", NoName),
                          Permission("BatchApply", "OperationFamily", NoName)}],
        [principal |-> alice, scope |-> [kind |-> "Service", workspace |-> NoName],
         roles |-> {},
         permissions |-> {Permission("WorkspaceCreate", "Service", NoName),
                          Permission("AuditInspect", "Service", NoName)}],
        [principal |-> bob,
         scope |-> [kind |-> "DeploymentLocalAllWorkspaces", workspace |-> NoName],
         roles |-> {"reader"},
         permissions |-> {Permission("WorkspaceOpen", "Workspace", NoName),
                          Permission("WorkspaceCreate", "Service", NoName)}] >>]

Mapping(p) == [fingerprint |-> p, principal |-> p]
MCMaps == {<<Mapping(alice), Mapping(bob)>>, <<Mapping(bob)>>}

Call(rpc, p) == [NoCall EXCEPT !.rpc = rpc,
                               !.peer = [certificate |-> p, loopback |-> p # bob, actor |-> p # carol]]
Run(p, h, body) == [Call("execute", p) EXCEPT !.handle = h, !.body = body]

Create(m) == [type |-> "CreateNode", model |-> m]
Find(m, step) == [type |-> "FindNodes", model |-> m, traversals |-> <<step>>]
Explain(query) == [type |-> "Explain", query |-> query]
Batch(m) == [type |-> "ApplyBatch", ops |-> <<Create(a), Create(b), Create(m)>>]

\* alice works, bob reads, carol is refused; each way to be refused once
MCCalls ==
  { [Call("create", alice) EXCEPT !.local = TRUE, !.ref = 1],
    Call("create", bob),
    Call("status", bob),
    Call("inspect", alice),
    [Call("create", carol) EXCEPT !.malformed = TRUE],
    [Call("execute", alice) EXCEPT !.malformed = TRUE],
    [Call("open", bob) EXCEPT !.ref = 1],
    Run(alice, h1, Find(a, [edge_model |-> NoName, end_model |-> a])),
    Run(bob, h1, Explain([kind |-> "Traversal", model |-> b, traversals |-> << >>])),
    Run(bob, h1, Find(a, [edge_model |-> e, end_model |-> b])),
    [Call("close", alice) EXCEPT !.handle = h1],
    Run(alice, h1, Batch(a)),
    Run(alice, h1, Batch(e)) }
  \cup {Run(alice, h, Create(a)) : h \in Handles}

Symmetry == Permutations(Clients)
=============================================================================
