--------------------------- MODULE MCSocks5Framed ---------------------------
(***************************************************************************)
(* Socks5Framed for TLC with bytes up to 9, so that frames of the largest  *)
(* size are short and a read may run past every limit.                     *)
(***************************************************************************)
EXTENDS Socks5Framed

\* 9 is the byte that is not text.
NoNine(s) == \A i \in DOMAIN s : s[i] # 9

GoodGreetings ==
    {Item("greeting", <<5, 1, 2>>, [methods |-> <<"UsernamePassword">>]),
     Item("greeting", <<5, 3, 7, 0, 1>>, [methods |-> <<"NoAuthenticationRequired", "Gssapi">>]),
     Item("greeting", <<5, 1, 6>>, [methods |-> <<>>])}

BadGreetings ==
    {Malformed("greeting", <<4, 1, 0>>, "InvalidVersion"),
     Malformed("greeting", <<5, 0>>, "EmptyMethodsList")}

Sevens(n) == [i \in 1..n |-> 7]

\* The first is as small as a frame can be, the second as large.
GoodAuths ==
    {Item("auth", <<1, 1, 5, 1, 4>>, [username |-> <<5>>, password |-> <<4>>]),
     Item("auth", <<1, 9>> \o Sevens(9) \o <<9>> \o Sevens(9),
          [username |-> Sevens(9), password |-> Sevens(9)])}

BadAuths ==
    {Malformed("auth", <<5, 1, 1, 1, 1>>, "InvalidAuthVersion"),
     Malformed("auth", <<1, 0, 1, 1>>, "EmptyUsername"),
     Malformed("auth", <<1, 2, 1, 1, 0>>, "EmptyPassword"),
     Malformed("auth", <<1, 1, 9, 1, 1>>, "InvalidUsernameEncoding"),
     Malformed("auth", <<1, 1, 1, 2, 1, 9>>, "InvalidPasswordEncoding")}

Dst(atyp, host, port) == Address(atyp, host, port)
GoodRequests ==
    {Item("request", <<5, 1, 0, 1, 9, 9, 1, 2>>,
          [command |-> "Connect", dst_address |-> Dst("Ipv4", <<9, 9>>, 12)]),
     Item("request", <<5, 2, 0, 4, 0, 0, 1, 0, 7>>,
          [command |-> "Bind", dst_address |-> Dst("Ipv6", <<0, 0, 1>>, 7)]),
     Item("request", <<5, 3, 0, 3, 9>> \o Sevens(9) \o <<9, 9>>,
          [command |-> "UdpAssociate", dst_address |-> Dst("Domain", Sevens(9), 99)]),
     Item("request", <<5, 1, 0, 3, 0, 8, 0>>,
          [command |-> "Connect", dst_address |-> Dst("Domain", <<>>, 80)])}

BadRequests ==
    {Malformed("request", <<1, 1, 0, 1>>, "InvalidVersion"),
     Malformed("request", <<5, 4, 0, 1>>, "InvalidCommand"),
     Malformed("request", <<5, 1, 1, 1>>, "InvalidReserved"),
     Malformed("request", <<5, 1, 0, 2>>, "InvalidAddressType"),
     Malformed("request", <<5, 1, 0, 3, 1, 9, 0, 0>>, "InvalidDomainEncoding")}

\* Clients that keep to the phases, with or without credentials, up to an
\* error or with data behind their request; and one that starts in the middle.
GoodAuthDialogues == {<<g, a, r>> : g \in GoodGreetings, a \in GoodAuths, r \in GoodRequests}
AnyScripts ==
    GoodAuthDialogues
        \cup {<<g>> : g \in BadGreetings}
        \cup {<<g, a>> : g \in GoodGreetings, a \in BadAuths}
        \cup {<<g, r>> : g \in GoodGreetings, r \in GoodRequests \cup BadRequests}
        \cup {<<r, r>> : r \in GoodRequests}

\* Only clients that keep to the protocol.
GoodScripts == GoodAuthDialogues

AnyResponses ==
    {[reply |-> "Succeeded", bnd_address |-> Address("Ipv4", <<1, 4>>, 35)],
     [reply |-> "Succeeded", bnd_address |-> Address("Ipv6", <<9, 0, 4>>, 80)],
     [reply |-> "GeneralFailure", bnd_address |-> Address("Ipv4", <<0, 0>>, 0)]}

\* "Frame size exceeds maximum allowed length" (noxen-socks5/src/error.rs:51):
\* none of the frames of these clients does, yet the decoders measure the
\* whole buffer, and with it what was read behind the frame.
TooLargeIsTooLarge == error # "FrameTooLarge"
=============================================================================
