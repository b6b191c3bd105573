----------------------------- MODULE HttpPatch ------------------------------
(***************************************************************************)
(* patch_http_url (http.c): a request that a client sends to its server is *)
(* made one for a proxy, by putting http:// and the name of the Host       *)
(* header before its target.  A segment is a sequence of tokens: the       *)
(* methods and "Host:", each with the space after it, "http:", CR and      *)
(* other text.  What follows the segment in its buffer is behind: the code *)
(* looks for the end of the host there too, for 511 bytes at most.         *)
(***************************************************************************)
EXTENDS Naturals, SequencesExt

CR == "CR"
(* In the order the code looks for them, not that of the segment. *)
Methods == <<"GET", "POST", "PUT", "DELETE", "HEAD", "OPTIONS", "PATCH">>

(* The first place of a token, or 0. *)
find_data(data, value) == SelectInSeq(data, LAMBDA token : token = value)

(* The Host header, to the end of its line. *)
HostName(data, behind) ==
  LET host == SubSeq(data, find_data(data, "Host:") + 1, Len(data)) \o behind
      end == find_data(host, CR)
  IN  IF end = 0 THEN host ELSE SubSeq(host, 1, end - 1)

(* Mutant: a request for a proxy gets a second http://. *)
patch_http_url_again(data, behind) ==
  LET word == SelectInSeq(Methods, LAMBDA w : find_data(data, w) # 0)
      pos1 == find_data(data, Methods[word])
  IN  IF find_data(data, "Host:") = 0 \/ word = 0 THEN data
      ELSE SubSeq(data, 1, pos1) \o <<"http:">> \o HostName(data, behind)
             \o SubSeq(data, pos1 + 1, Len(data))

(* The segment itself where the code returns 0. *)
patch_http_url(data, behind) ==
  LET word == SelectInSeq(Methods, LAMBDA w : find_data(data, w) # 0)
      pos1 == find_data(data, Methods[word])
  IN  IF find_data(data, "Host:") = 0 \/ word = 0 THEN data
      ELSE IF pos1 < Len(data) /\ data[pos1 + 1] = "http:" THEN data
      ELSE SubSeq(data, 1, pos1) \o <<"http:">> \o HostName(data, behind)
             \o SubSeq(data, pos1 + 1, Len(data))

-----------------------------------------------------------------------------
(* A request with its whole Host header in the segment, which is no part   *)
(* of a target.  Other methods may follow the one it begins with, if the   *)
(* code looks for them later: POST in a GET, but not GET in a POST.        *)
IsRequest(data) ==
  /\ data # << >>
  /\ \E m \in 1 .. Len(Methods) :
       /\ data[1] = Methods[m]
       /\ \A i \in 2 .. Len(data) : \A k \in 1 .. m - 1 : data[i] # Methods[k]
  /\ LET h == find_data(data, "Host:")
     IN  h > 1 /\ data[h - 1] = CR /\ \E i \in h .. Len(data) : data[i] = CR

(* The target of such a request is made absolute, once: a request that is  *)
(* absolute, and one that has been patched, stays as it is.                *)
TargetIsAbsolute(data) ==
  IsRequest(data) =>
    LET host == HostName(data, << >>)
        patched == IF data[2] = "http:" THEN data
                   ELSE <<data[1], "http:">> \o host \o Tail(data)
    IN  \A behind \in {<< >>, <<"Host:", "text">>} :
          /\ patch_http_url(data, behind) = patched
          /\ patch_http_url(patched, behind) = patched

=============================================================================
