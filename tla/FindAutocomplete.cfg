SPECIFICATION Spec
CONSTANTS
    Emojis <- MCEmojis
    Terms <- MCTerms
    Longer <- MCLonger
    Finds <- MCFinds
    InCodePosts = {TRUE, FALSE}
    MaxClicks = 2
    MaxWords = 2
PROPERTY ColonSuggests
