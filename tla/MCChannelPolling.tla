-------------------------- MODULE MCChannelPolling --------------------------
EXTENDS ChannelPolling, TLC

CONSTANTS a, b, x, y, s1, s2

\* Two feeds that share the URL x; the second version of a's feed lists y as well.
FeedEntries == [ch \in {a, b} |->
  IF ch = a THEN <<<<x>>, <<y, x>>>> ELSE <<<<x>>, <<x>>>>]

\* An index a that lists the sitemap b, which lists x and then also y.
IndexEntries == [ch \in {a, b} |->
  IF ch = a THEN <<<<b>>, <<b>>>> ELSE <<<<x>>, <<y, x>>>>]

\* A feed that lists two URLs at once.
LongEntries == [ch \in {a} |-> <<<<x, y>>>>]

SlotSymmetry == Permutations({s1, s2})
=============================================================================
