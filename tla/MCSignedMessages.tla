-------------------------- MODULE MCSignedMessages --------------------------
(* SignedMessages for TLC: a 3-letter alphabet, 4 byte values, a prefix of   *)
(* one byte and keys of two.                                                 *)
EXTENDS SignedMessages

Key1 == <<1, 2>>
Key2 == <<1, 3>>

MCMulticodec == <<3>>
MCRoot == encode_did_key(Key1)
Other  == encode_did_key(Key2)

(* Every text of up to six letters, some that are no base58, no did:key.     *)
MCOverrides ==
    {[scheme |-> "did:key:z", text |-> t] : t \in
        BoundedSeq(0 .. Base - 1, 5) \cup {<<BadLetter>>, <<1, NotAscii>>}}
    \cup {[scheme |-> "did:web:z", text |-> <<1>>]}

Good(key) == [kind |-> "file", symlink |-> FALSE, inside_repo |-> FALSE,
              private |-> TRUE, parent_private |-> TRUE,
              content |-> [form |-> "encrypted", passphrase |-> "p",
                           type |-> "Ed25519", key |-> key]]

MCStores ==
    LET good == Good(Key1)
    IN  {good, Good(Key2),
         [good EXCEPT !.kind = "absent"],
         [good EXCEPT !.kind = "directory"],
         [good EXCEPT !.symlink = TRUE],
         [good EXCEPT !.symlink = TRUE, !.inside_repo = TRUE],
         [good EXCEPT !.private = FALSE],
         [good EXCEPT !.parent_private = FALSE],
         [good EXCEPT !.content.form = "plain", !.content.passphrase = "None"],
         [good EXCEPT !.content.type = "RSA"]}

MCRooms == {<<"a">>, <<"1">>, <<"a", "|", "1">>, <<"a", "nl">>, <<"a", "/">>,
            <<".", ".">>, <<"-", "a">>, <<"A", "nbsp", "a">>}
MCNames == {<<"a">>, <<"1">>, <<"a", "nl">>, <<"-">>}

(* Every text of up to two characters of the six, and some longer ones.      *)
MCTexts ==
    BoundedSeq({"a", "|", "/", "nbsp", "zw", "."}, 2)
    \cup {<<"1", "|", "a">>, <<"a", "a", "a", "a">>, <<"zw", "a", "a", "a">>,
          <<"a", "nl", "nl", "a", " ">>, <<"zw", ".", ".">>, <<".", ".", ".">>,
          <<"A", "-", ".">>, <<"a", "/", "a">>, <<"nbsp", "zw", "a">>,
          <<"zw", "nbsp", "a">>, <<"a", "nbsp", "a">>, <<"a", "zw", "a">>,
          <<"|", "1", "|">>, <<"nbsp", "a", "zw">>}

MCStrangers == {encode_did_key(Key2), [scheme |-> "did:key:z", text |-> <<NotAscii>>]}

(* The bound on signing: it goes on only under the committed did, with notes *)
(* allowed.                                                                  *)
OneSigner ==
    write'.kind \in {"message", "note"} =>
        capability.configured = NoOverride /\ capability.allow_notes
=============================================================================
