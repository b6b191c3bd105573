------------------------------ MODULE TlsHello ------------------------------
(***************************************************************************)
(* parse_tls_header (tls.c): the server name in the ClientHello that the   *)
(* first segment on port 443 holds.  A hello is a sequence of numbers in   *)
(* which a length of two bytes is one number, and so are the 37 bytes of   *)
(* fixed fields after the handshake type.  Names are at most FQDN_MAX long.*)
(***************************************************************************)
EXTENDS Naturals, SequencesExt

Handshake == 22     \* TLS_HANDSHAKE_CONTENT_TYPE
ClientHello == 1    \* TLS_HANDSHAKE_TYPE_CLIENT_HELLO
ServerName == 0     \* type of the extension, and of a host_name in it
NoName == << >>     \* hostname is left as it was

(* After the length of the list, entries of type, length and name. *)
parse_server_name_extension(data) ==
  LET Entry[pos \in Nat] ==
        IF pos + 1 >= Len(data) THEN NoName
        ELSE LET len == data[pos + 1]
             IN  IF pos + 1 + len > Len(data) THEN NoName
                 ELSE IF data[pos] = ServerName THEN SubSeq(data, pos + 2, pos + 1 + len)
                 ELSE Entry[pos + 2 + len]
  IN  Entry[2]

(* Extensions of type, length and contents. *)
parse_extensions(data) ==
  LET Extension[pos \in Nat] ==
        IF pos + 1 > Len(data) THEN NoName
        ELSE LET len == data[pos + 1]
             IN  IF data[pos] # ServerName THEN Extension[pos + 2 + len]
                 ELSE IF pos + 1 + len > Len(data) THEN NoName
                 ELSE parse_server_name_extension(SubSeq(data, pos + 2, pos + 1 + len))
  IN  Extension[1]

(* Mutant: the length of the record is not compared with the segment. *)
parse_tls_header_of_part(data) ==
  LET n == Len(data)
      Next(pos) == IF pos <= n THEN pos + 1 + data[pos] ELSE pos
      extensions == Next(Next(Next(7)))
  IN  IF \/ n < 5 \/ data[1] # Handshake \/ data[2] < 3
         \/ data[5] # ClientHello
         \/ extensions > n
      THEN NoName
      ELSE parse_extensions(SubSeq(data, extensions + 1, n))

(* Type, version and length of the record; the handshake's type and fixed  *)
(* fields; session identifier, cipher suites and compression methods, each *)
(* after its length; the length of the extensions.                         *)
parse_tls_header(data) ==
  LET n == IF Len(data) >= 4 THEN 4 + data[4] ELSE 0   \* end of the record
      Next(pos) == IF pos <= n THEN pos + 1 + data[pos] ELSE pos
      extensions == Next(Next(Next(7)))
  IN  IF \/ Len(data) < 4 \/ data[1] # Handshake \/ data[2] < 3
         \/ Len(data) < n
         \/ n < 5 \/ data[5] # ClientHello
         \/ extensions > n \/ extensions + data[extensions] > n
      THEN NoName
      ELSE parse_extensions(SubSeq(data, extensions + 1, extensions + data[extensions]))

-----------------------------------------------------------------------------
(* What a client sends: vectors after their length. *)
Vector(contents) == <<Len(contents)>> \o contents

(* An extension has a type and entries of type and name; those of other    *)
(* types are not looked into.                                              *)
EncodedEntry(entry) == <<entry.type>> \o Vector(entry.name)
EncodedExtension(e) ==
  <<e.type>> \o Vector(Vector(FlattenSeq([i \in DOMAIN e.entries |-> EncodedEntry(e.entries[i])])))
Hello(session, extensions) ==
  <<Handshake, 3, 1>> \o
  Vector(<<ClientHello, 0>> \o Vector(session) \o Vector(<<7, 7>>) \o Vector(<<0>>) \o
         Vector(FlattenSeq([i \in DOMAIN extensions |-> EncodedExtension(extensions[i])])))

(* The first host name of the first extension for server names. *)
FirstOfType(s) == SelectInSeq(s, LAMBDA x : x.type = ServerName)
NameOf(extensions) ==
  LET e == FirstOfType(extensions)
      entries == IF e = 0 THEN << >> ELSE extensions[e].entries
      h == FirstOfType(entries)
  IN  IF h = 0 THEN NoName ELSE entries[h].name

(* The name a whole hello asks for is found, and no part of one is found   *)
(* in a segment that ends within the hello.                                *)
ServerNameIsFound(session, extensions) ==
  LET hello == Hello(session, extensions)
  IN  /\ parse_tls_header(hello) = NameOf(extensions)
      /\ \A k \in 0 .. Len(hello) - 1 : parse_tls_header(SubSeq(hello, 1, k)) = NoName

=============================================================================
