------------------------------ MODULE MCIngest ------------------------------
(* Constants for model-checking Ingest. *)
EXTENDS Ingest

OneSource == {1}
TwoSources == {1, 2}

\* Onet and TVN24 return an ETag, Interia and WP nothing, Gazeta a Last-Modified.
ETag == [s \in Sources |-> "etag"]
NoneAndLastModified == [s \in Sources |-> IF s = 1 THEN "none" ELSE "lastmod"]
LastModified == [s \in Sources |-> "lastmod"]

OneArticle == [s \in Sources |-> 1]
TwoArticles == [s \in Sources |-> 2]
ThreeArticles == [s \in Sources |-> 3]
OneAndTwoArticles == [s \in Sources |-> s]

=============================================================================
