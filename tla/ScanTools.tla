----------------------------- MODULE ScanTools -----------------------------
(***************************************************************************)
(* The tools of toolset scan_ops: scans and registries (scan_ops.py) and   *)
(* the roots of trust and verifiers of image signatures (sigstore.py).  As *)
(* in PolicyTools, a definition is the plan a tool puts before the guard.  *)
(* What the code joins in one string with a literal first is a tuple.      *)
(***************************************************************************)
EXTENDS ToolPlans

ScanPlan(operation, target, namespace, payload, route) ==
    Plan(operation, "scan_ops", target, namespace, payload, route)
-----------------------------------------------------------------------------
(* Scans.                                                                  *)

ScanPath(target, target_id) ==
    CASE target = "platform" -> <<"/v1/scan/platform/platform">>
      [] target = "registry" -> <<"/v1/scan/registry", target_id, "scan">>
      [] OTHER -> <<"/v1/scan", target, target_id>>

nv_trigger_scan(a) ==
    ScanPlan("nv_trigger_scan", <<a.target, a.target_id>>,
             IF a.target = "workload" THEN a.namespace ELSE None, NoPayload,
             Route("POST", ScanPath(a.target, a.target_id)))

nv_stop_registry_scan(a) ==
    ScanPlan("nv_stop_registry_scan", a.registry_name, None, NoPayload,
             Route("DELETE", <<"/v1/scan/registry", a.registry_name, "scan">>))

\* The arguments that only shape the report are not sent, and not bound.
nv_scan_repository(a) ==
    ScanPlan("nv_scan_repository", <<a.registry, a.repository, a.tag>>, None,
             redact_secrets(Given([registry |-> a.registry, repository |-> a.repository,
                                   tag |-> a.tag, scan_layers |-> a.scan_layers,
                                   base_image |-> a.base_image,
                                   ignore_proxy |-> a.ignore_proxy,
                                   username |-> a.username, password |-> a.password])),
             Route("POST", "/v1/scan/repository"))

nv_trigger_bench_run(a) ==
    ScanPlan("nv_trigger_bench_run", <<a.benchmark, a.host_id>>, None, NoPayload,
             Route("POST", <<"/v1/bench/host", a.host_id, a.benchmark>>))
-----------------------------------------------------------------------------
(* Registries.  The filters are sorted, so they are a set here.            *)

\* Credentials are nested: sent flat, the controller drops them.
RegistryAuth(a) ==
    redact_secrets(Given([auth_with_token |-> a.auth_with_token, username |-> a.username,
                          password |-> a.password, auth_token |-> a.auth_token]))

RegistryBody(a) ==
    LET auth == RegistryAuth(a)
    IN  Given([name |-> a.name, registry_type |-> a.registry_type, registry |-> a.registry,
               filters |-> a.filters, scan_layers |-> a.scan_layers,
               rescan_after_db_update |-> a.rescan_after_db_update,
               ignore_proxy |-> a.ignore_proxy, repo_limit |-> a.repo_limit,
               tag_limit |-> a.tag_limit,
               auth |-> IF DOMAIN auth = {} THEN None ELSE auth])

nv_create_registry(a) ==
    ScanPlan("nv_create_registry", a.name, None, RegistryBody(a),
             Route("POST", "/v2/scan/registry"))

\* The type of a registry is no argument of the update: it is None.
nv_update_registry(a) ==
    LET body == RegistryBody(a)
    IN  Checked(DOMAIN body # {"name"},
                ScanPlan("nv_update_registry", a.name, None, body,
                         Route("PATCH", <<"/v2/scan/registry", a.name>>)))

nv_delete_registry(a) ==
    ScanPlan("nv_delete_registry", a.name, None, NoPayload,
             Route("DELETE", <<"/v1/scan/registry", a.name>>))
-----------------------------------------------------------------------------
(* Roots of trust.                                                         *)

ROOTS == <<"/v1/scan/sigstore/root_of_trust">>
RootPath(root) == Slash(ROOTS, root)
VerifierPath(root, verifier) == Slash(RootPath(root), Slash(<<"verifier">>, verifier))

\* "if value:", an empty key is left out.
NonBlank(key) == IF key = "" THEN None ELSE key

_root_post_body(a) ==
    Given([name |-> a.name, is_private |-> a.is_private,
           rootless_keypairs_only |-> a.rootless_keypairs_only, comment |-> a.comment,
           rekor_public_key |-> NonBlank(a.rekor_public_key),
           root_cert |-> NonBlank(a.root_cert),
           sct_public_key |-> NonBlank(a.sct_public_key)])

nv_create_sigstore_root(a) ==
    ScanPlan("nv_create_sigstore_root", a.name, None, _root_post_body(a),
             Route("POST", ROOTS))

\* Here an empty key is sent, and clears the stored one.
nv_update_sigstore_root(a) ==
    LET changes == Given([rekor_public_key |-> a.rekor_public_key,
                          root_cert |-> a.root_cert, sct_public_key |-> a.sct_public_key,
                          comment |-> a.comment])
    IN  Changing(changes, ScanPlan("nv_update_sigstore_root", a.root_name, None, changes,
                                   Route("PATCH", RootPath(a.root_name))))

nv_delete_sigstore_root(a) ==
    ScanPlan("nv_delete_sigstore_root", a.root_name, None, NoPayload,
             Route("DELETE", RootPath(a.root_name)))
-----------------------------------------------------------------------------
(* Verifiers.                                                              *)

\* A verifier with neither key nor identity would vouch for any signer.
_validate_verifier_material(a) ==
    /\ a.verifier_type = "keypair" => a.public_key # ""
    /\ a.verifier_type = "keyless" => a.cert_issuer # "" /\ a.cert_subject # ""

_verifier_post_body(a) ==
    [name |-> a.name, verifier_type |-> a.verifier_type, public_key |-> a.public_key,
     cert_issuer |-> a.cert_issuer, cert_subject |-> a.cert_subject, comment |-> a.comment]

nv_create_sigstore_verifier(a) ==
    Checked(_validate_verifier_material(a),
            ScanPlan("nv_create_sigstore_verifier", Slash(a.root_name, a.name), None,
                     _verifier_post_body(a),
                     Route("POST", Slash(RootPath(a.root_name), <<"verifier">>))))

\* The material is not validated here.
nv_update_sigstore_verifier(a) ==
    LET changes == Given([verifier_type |-> a.verifier_type, public_key |-> a.public_key,
                          cert_issuer |-> a.cert_issuer, cert_subject |-> a.cert_subject,
                          comment |-> a.comment])
    IN  Changing(changes,
                 ScanPlan("nv_update_sigstore_verifier",
                          Slash(a.root_name, a.verifier_name), None, changes,
                          Route("PATCH", VerifierPath(a.root_name, a.verifier_name))))

nv_delete_sigstore_verifier(a) ==
    ScanPlan("nv_delete_sigstore_verifier", Slash(a.root_name, a.verifier_name), None, NoPayload,
             Route("DELETE", VerifierPath(a.root_name, a.verifier_name)))
=============================================================================
