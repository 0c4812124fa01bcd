------------------------------- MODULE MCLogin -------------------------------
(* Instances of Login for TLC. *)
EXTENDS Login

(* Name lists in which every entry is the same in both directions. *)
Lists1(kex, hostkey, crypt, mac, comp) ==
    [kex |-> kex, hostkey |-> hostkey, crypt_cs |-> crypt, crypt_sc |-> crypt,
     mac_cs |-> mac, mac_sc |-> mac, comp_cs |-> comp, comp_sc |-> comp]
Offer(cli, srv1, algs, keys) ==
    [cli |-> cli, srv |-> srv1, later |-> srv1, algs |-> algs, keys |-> keys]
Key(kind, from) == [kind |-> kind, from |-> from]

(* The client prefers a method that the server does not have, or does not   *)
(* like best; the group is fixed, or asked for, or a curve's, and another   *)
(* curve's in later exchanges; the server's order changes, but not what is  *)
(* agreed on; or another MAC is agreed on; or it has got a certificate; or  *)
(* nothing is agreed on.                                                    *)
Dh == Offer(
    Lists1(<<"group16_sha512", "group14_sha256">>, <<"rsa", "ed25519">>,
           <<"gcm", "ctr">>, <<"sha2">>, <<"none">>),
    Lists1(<<"group1_sha1", "group14_sha256">>, <<"ed25519", "rsa">>,
           <<"ctr", "gcm">>, <<"sha2">>, <<"none">>),
    <<"ssh-rsa", "ssh-ed25519", "rsa-sha2-256">>,
    {Key("rsa", "callback"), Key("cert", "file")})
Gex == [Offer(
    Lists1(<<"gex_sha256">>, <<"ed25519">>, <<"ctr">>, <<"sha2", "sha1">>,
           <<"delayed">>),
    Lists1(<<"gex_sha1", "gex_sha256">>, <<"ed25519">>, <<"ctr">>,
           <<"sha1", "sha2">>, <<"delayed">>),
    NoAlgs, {Key("ed25519", "sk")}) EXCEPT !.later.mac_cs = <<"sha2", "sha1">>]
Macs == [Gex EXCEPT !.later.mac_cs = <<"sha1">>]
Cert == [Offer(
    Lists1(<<"curve25519_sha256">>, <<"ecdsa_cert", "ed25519">>, <<"ctr">>,
           <<"sha1">>, <<"none">>),
    Lists1(<<"curve25519_sha256">>, <<"ed25519">>, <<"ctr">>, <<"sha1">>,
           <<"none">>),
    NoAlgs, {Key("ed25519", "memory")})
    EXCEPT !.later.hostkey = <<"ed25519", "ecdsa_cert">>]
Curve == [Offer(
    Lists1(<<"ecdh_nistp384", "curve25519_sha256">>, <<"ed25519">>, <<"ctr">>,
           <<"sha1">>, <<"zlib">>),
    Lists1(<<"curve25519_sha256">>, <<"ed25519">>, <<"ctr">>, <<"sha1">>,
           <<"zlib">>),
    <<"ssh-ed25519">>, {Key("rsa", "memory"), Key("ed25519", "memory")})
    EXCEPT !.later.kex = <<"ecdh_nistp256", "ecdh_nistp384">>]
NoCommon == Offer(
    Lists1(<<"curve25519_sha256">>, <<"ed25519">>, <<"ctr">>, <<"sha1">>,
           <<"none">>),
    Lists1(<<"curve25519_sha256">>, <<"ed25519">>, <<"ctr">>, <<"sha2">>,
           <<"none">>),
    NoAlgs, {})
SomeOffers == {Dh, Gex, Macs, Curve, Cert, NoCommon}

=============================================================================
